---- MODULE Spec2Model ----
(***************************************************************************)
(* FitnessData: the analytics pipeline of pages/Dashboard.py (Normalizer,  *)
(* Weekly Aggregator, PR Detector, Plateau Classifier, Hypertrophy Scorer, *)
(* Weekday Splitter), the st.cache_data memo in front of the Normalizer,   *)
(* the writers of the workout_sets table and the login session of          *)
(* streamlit_app.py.                                                       *)
(*                                                                         *)
(* Encoding.  A text is a sequence of one-character strings.  A timestamp  *)
(* is a number of ticks since Monday 00:00 of week 0 (TicksPerDay ticks a  *)
(* day).  Weights and reps are naturals.  NaN / NaT / None are the         *)
(* sentinels below; every arithmetic helper propagates or skips them the   *)
(* way pandas does.  A DataFrame is [cols, rows]: its set of column names  *)
(* and its sequence of rows, so that pd.DataFrame() (no columns) differs   *)
(* from a frame that has columns and no rows.                              *)
(***************************************************************************)
EXTENDS Integers, Sequences, FiniteSets, TLC

VARIABLES
    store,      \* rows of the workout_sets table that belong to the user
    cache,      \* st.cache_data memo of load_data_from_supabase, by week_start_day
    data,       \* Dashboard.py:360  data
    weekly,     \* Dashboard.py:365  weekly
    weekly_pr,  \* Dashboard.py:366  weekly_pr
    alerts,     \* Dashboard.py:367  alerts
    mg_score,   \* Dashboard.py:368  mg_score
    day_split,  \* Dashboard.py:369  day_split
    args,       \* the parameter values of the latest call of each component
    status,     \* per component: "idle", "returned" or the exception raised
    excel_import,   \* import_excel_to_supabase.py main: rows as extracted and as deduplicated
    session_state,  \* streamlit_app.py  st.session_state: user, access_token, refresh_token
    query_params,   \* streamlit_app.py  st.query_params: at, rt
    auth_status     \* the outcome of the latest of login, logout and session restore

auth == <<session_state, query_params, auth_status>>

vars ==
    <<store, cache, data, weekly, weekly_pr, alerts, mg_score, day_split, args, status,
      excel_import, auth>>

----------------------------------------------------------------------------
(* Bounds of the model *)

TicksPerDay == 2
MaxWeek == 2
MaxWeight == 2
MaxRows == 3
MaxText == 3
MaxStore == 2

(* Program constants *)

DaysPerWeek == 7
WEEK_START_DAY_DEFAULT == 0
PR_MIN_REPS == 8
PlateauWeeksDefault == 3
LookbackWeeksDefault == 12

(* Missing values *)

NaN == -1
NaT == -1
None == <<"None">>
NanText == <<"NaN">>
BadValue == -2

IsNa(x) == x = NaN
IsNaT(x) == x = NaT

----------------------------------------------------------------------------
(* Texts *)

Whitespace == {" "}

CodePoint(c) ==
    CASE c = " " -> 32
      [] c = "," -> 44
      [] c = "B" -> 66
      [] c = "C" -> 67
      [] c = "N" -> 78
      [] c = "a" -> 97
      [] c = "e" -> 101
      [] c = "n" -> 110
      [] c = "o" -> 111
      [] c = "x" -> 120
      [] c = "y" -> 121
      [] OTHER -> 0

RECURSIVE TextLess(_, _)
TextLess(a, b) ==
    IF b = <<>> THEN FALSE
    ELSE IF a = <<>> THEN TRUE
    ELSE IF Head(a) = Head(b) THEN TextLess(Tail(a), Tail(b))
    ELSE CodePoint(Head(a)) < CodePoint(Head(b))

RECURSIVE LStrip(_)
LStrip(s) ==
    IF s # <<>> /\ Head(s) \in Whitespace THEN LStrip(Tail(s)) ELSE s

RECURSIVE RStrip(_)
RStrip(s) ==
    IF s # <<>> /\ s[Len(s)] \in Whitespace THEN RStrip(SubSeq(s, 1, Len(s) - 1)) ELSE s

Strip(s) == RStrip(LStrip(s))

RECURSIVE SplitFrom(_, _, _, _)
SplitFrom(s, sep, cur, acc) ==
    IF s = <<>> THEN Append(acc, cur)
    ELSE IF Head(s) = sep THEN SplitFrom(Tail(s), sep, <<>>, Append(acc, cur))
    ELSE SplitFrom(Tail(s), sep, Append(cur, Head(s)), acc)

Split(s, sep) == SplitFrom(s, sep, <<>>, <<>>)

AsStr(v) ==
    IF v = None THEN <<"N", "o", "n", "e">>
    ELSE IF v = NanText THEN <<"n", "a", "n">>
    ELSE v

RECURSIVE SelectNonBlank(_)
SelectNonBlank(xs) ==
    IF xs = <<>> THEN <<>>
    ELSE IF Strip(AsStr(Head(xs))) # <<>>
         THEN <<Strip(Head(xs))>> \o SelectNonBlank(Tail(xs))
         ELSE SelectNonBlank(Tail(xs))

----------------------------------------------------------------------------
(* Sequences and frames *)

Range(s) == {s[i] : i \in 1..Len(s)}

RECURSIVE FlatMap(_, _)
FlatMap(F(_), s) ==
    IF s = <<>> THEN <<>> ELSE F(Head(s)) \o FlatMap(F, Tail(s))

MapSeq(F(_), s) == [i \in 1..Len(s) |-> F(s[i])]

FilterSeq(P(_), s) == SelectSeq(s, P)

Frame(c, r) == [cols |-> c, rows |-> r]
EmptyFrame == Frame({}, <<>>)
IsEmpty(df) == df.cols = {} \/ df.rows = <<>>

Return(df) == [exc |-> "none", df |-> df]
Raise(e) == [exc |-> e, df |-> EmptyFrame]

----------------------------------------------------------------------------
(* Normalizer: Dashboard.py load_data_from_supabase and its helpers *)

RawCols == {"Datum", "Oefening", "Spiergroep", "Gewicht", "Reps"}
DataCols == RawCols \cup {"week_start", "weekday"}

to_datetime(x) == IF x >= 0 THEN x ELSE NaT
to_numeric(x) == IF x >= 0 THEN x ELSE NaN

Weekday(ts) == (ts \div TicksPerDay) % DaysPerWeek
Normalize(ts) == ts - (ts % TicksPerDay)

\* Mutant: the difference of the weekdays is taken the other way round.
_week_start_swapped(ts, week_start_day) ==
    LET dow == Weekday(ts)
        delta == (week_start_day - dow) % DaysPerWeek
    IN  Normalize(ts - delta * TicksPerDay)

_week_start(ts, week_start_day) ==
    LET dow == Weekday(ts)
        delta == (dow - week_start_day) % DaysPerWeek
    IN  Normalize(ts - delta * TicksPerDay)

explode_row(r) ==
    LET parts == SelectNonBlank(Split(AsStr(r.Spiergroep), ","))
        exploded == IF parts = <<>> THEN <<NanText>> ELSE parts
    IN  [i \in 1..Len(exploded) |-> [r EXCEPT !.Spiergroep = Strip(AsStr(exploded[i]))]]

explode_spiergroep(rows) == FlatMap(explode_row, rows)

coerce_row(r) ==
    [Datum |-> to_datetime(r.Datum), Oefening |-> r.Oefening, Spiergroep |-> r.Spiergroep,
     Gewicht |-> to_numeric(r.Gewicht), Reps |-> to_numeric(r.Reps)]

\* Mutant: reps is one of the required columns.
notna_required_with_reps(r) ==
    /\ ~IsNaT(r.Datum)
    /\ r.Spiergroep # None
    /\ r.Oefening # None
    /\ ~IsNa(r.Gewicht)
    /\ ~IsNa(r.Reps)

notna_required(r) ==
    /\ ~IsNaT(r.Datum)
    /\ r.Spiergroep # None
    /\ r.Oefening # None
    /\ ~IsNa(r.Gewicht)

strip_row(r) ==
    [r EXCEPT !.Oefening = Strip(AsStr(r.Oefening)), !.Spiergroep = Strip(AsStr(r.Spiergroep))]

add_week_row(r, week_start_day) ==
    [Datum |-> r.Datum, Oefening |-> r.Oefening, Spiergroep |-> r.Spiergroep,
     Gewicht |-> r.Gewicht, Reps |-> r.Reps,
     week_start |-> _week_start(r.Datum, week_start_day),
     weekday |-> Weekday(r.Datum)]

select_cols(s) ==
    [Datum |-> s.workout_date, Oefening |-> s.exercise_name, Spiergroep |-> s.spiergroepen,
     Gewicht |-> s.weight_kg, Reps |-> s.reps]

normalize_rows(res_data, week_start_day) ==
    LET AddWeek(r) == add_week_row(r, week_start_day)
        coerced == MapSeq(coerce_row, MapSeq(select_cols, res_data))
        kept == FilterSeq(notna_required, coerced)
        stripped == MapSeq(strip_row, kept)
    IN  MapSeq(AddWeek, explode_spiergroep(stripped))

fetch_and_normalize(res_data, week_start_day) ==
    IF res_data = <<>> THEN EmptyFrame
    ELSE Frame(DataCols, normalize_rows(res_data, week_start_day))

----------------------------------------------------------------------------
(* Numbers: pandas reductions skip NaN; means are exact fractions *)

RECURSIVE GCD(_, _)
GCD(a, b) == IF b = 0 THEN a ELSE GCD(b, a % b)

Abs(x) == IF x < 0 THEN -x ELSE x

Frac(n, d) ==
    LET g == GCD(Abs(n), Abs(d))
        sgn == IF d < 0 THEN -1 ELSE 1
    IN  IF g = 0 THEN [num |-> 0, den |-> 1]
        ELSE [num |-> sgn * (n \div g), den |-> sgn * (d \div g)]

NaNFrac == [num |-> 0, den |-> 0]
IsNaFrac(q) == q.den = 0

FracAdd(p, q) == Frac(p.num * q.den + q.num * p.den, p.den * q.den)
FracSub(p, q) == Frac(p.num * q.den - q.num * p.den, p.den * q.den)
FracMul(p, q) == Frac(p.num * q.num, p.den * q.den)
FracDiv(p, q) == Frac(p.num * q.den, p.den * q.num)
FracLess(p, q) == p.num * q.den < q.num * p.den
FracLeq(p, q) == p.num * q.den <= q.num * p.den

Mul(a, b) == IF IsNa(a) \/ IsNa(b) THEN NaN ELSE a * b

RECURSIVE SumSkipNa(_)
SumSkipNa(xs) ==
    IF xs = <<>> THEN 0
    ELSE (IF IsNa(Head(xs)) THEN 0 ELSE Head(xs)) + SumSkipNa(Tail(xs))

NotNa(xs) == {xs[i] : i \in 1..Len(xs)} \ {NaN}

MaxOf(S) == CHOOSE x \in S : \A y \in S : y <= x
MinOf(S) == CHOOSE x \in S : \A y \in S : x <= y

MaxSkipNa(xs) == IF NotNa(xs) = {} THEN NaN ELSE MaxOf(NotNa(xs))

CountNotNa(xs) == Cardinality({i \in 1..Len(xs) : ~IsNa(xs[i])})

MeanSkipNa(xs) ==
    IF CountNotNa(xs) = 0 THEN NaNFrac ELSE Frac(SumSkipNa(xs), CountNotNa(xs))

----------------------------------------------------------------------------
(* Sorting and grouping: sort_values is stable, groupby sorts its keys *)

RECURSIVE InsertSorted(_, _, _)
InsertSorted(Less(_, _), x, s) ==
    IF s = <<>> THEN <<x>>
    ELSE IF Less(x, Head(s)) THEN <<x>> \o s
    ELSE <<Head(s)>> \o InsertSorted(Less, x, Tail(s))

RECURSIVE SortBy(_, _)
SortBy(Less(_, _), s) ==
    IF s = <<>> THEN <<>>
    ELSE InsertSorted(Less, s[Len(s)], SortBy(Less, SubSeq(s, 1, Len(s) - 1)))

RECURSIVE SetToSortedSeq(_, _)
SetToSortedSeq(Less(_, _), S) ==
    IF S = {} THEN <<>>
    ELSE LET m == CHOOSE x \in S : \A y \in S \ {x} : Less(x, y)
         IN  <<m>> \o SetToSortedSeq(Less, S \ {m})

gcols == {"Spiergroep", "Oefening", "week_start"}

GKey(r) == <<r.Spiergroep, r.Oefening, r.week_start>>
PairKey(r) == <<r.Spiergroep, r.Oefening>>

GKeyLess(a, b) ==
    \/ TextLess(a[1], b[1])
    \/ a[1] = b[1] /\ TextLess(a[2], b[2])
    \/ a[1] = b[1] /\ a[2] = b[2] /\ a[3] < b[3]

RowGKeyLess(r, q) == GKeyLess(GKey(r), GKey(q))

Column(rows, F(_)) == [i \in 1..Len(rows) |-> F(rows[i])]

----------------------------------------------------------------------------
(* Weekly Aggregator: Dashboard.py compute_weekly *)

WeeklyCols ==
    gcols \cup {"max_gewicht", "sets", "avg_gewicht", "tonnage", "max_reps", "volume", "reps_total"}

\* Mutant: the volume of a bucket without reps is absent (sum with min_count = 1).
weekly_bucket_volume_absent(rows, k) ==
    LET InGroup(r) == GKey(r) = k
        grp == FilterSeq(InGroup, rows)
        Gewicht(r) == r.Gewicht
        Reps(r) == r.Reps
        Volume(r) == Mul(r.Gewicht, r.Reps)
    IN  [Spiergroep |-> k[1], Oefening |-> k[2], week_start |-> k[3],
         max_gewicht |-> MaxSkipNa(Column(grp, Gewicht)),
         sets |-> Len(grp),
         avg_gewicht |-> MeanSkipNa(Column(grp, Gewicht)),
         tonnage |-> SumSkipNa(Column(grp, Gewicht)),
         max_reps |-> MaxSkipNa(Column(grp, Reps)),
         volume |-> IF NotNa(Column(grp, Volume)) = {} THEN NaN
                    ELSE SumSkipNa(Column(grp, Volume)),
         reps_total |-> SumSkipNa(Column(grp, Reps))]

\* Mutant: the records without reps are left out of the bucket.
weekly_bucket_reps_only(rows, k) ==
    LET InGroup(r) == GKey(r) = k /\ ~IsNa(r.Reps)
        grp == FilterSeq(InGroup, rows)
        Gewicht(r) == r.Gewicht
        Reps(r) == r.Reps
        Volume(r) == Mul(r.Gewicht, r.Reps)
    IN  [Spiergroep |-> k[1], Oefening |-> k[2], week_start |-> k[3],
         max_gewicht |-> MaxSkipNa(Column(grp, Gewicht)),
         sets |-> Len(grp),
         avg_gewicht |-> MeanSkipNa(Column(grp, Gewicht)),
         tonnage |-> SumSkipNa(Column(grp, Gewicht)),
         max_reps |-> MaxSkipNa(Column(grp, Reps)),
         volume |-> SumSkipNa(Column(grp, Volume)),
         reps_total |-> SumSkipNa(Column(grp, Reps))]

weekly_bucket(rows, k) ==
    LET InGroup(r) == GKey(r) = k
        grp == FilterSeq(InGroup, rows)
        Gewicht(r) == r.Gewicht
        Reps(r) == r.Reps
        Volume(r) == Mul(r.Gewicht, r.Reps)
    IN  [Spiergroep |-> k[1], Oefening |-> k[2], week_start |-> k[3],
         max_gewicht |-> MaxSkipNa(Column(grp, Gewicht)),
         sets |-> Len(grp),
         avg_gewicht |-> MeanSkipNa(Column(grp, Gewicht)),
         tonnage |-> SumSkipNa(Column(grp, Gewicht)),
         max_reps |-> MaxSkipNa(Column(grp, Reps)),
         volume |-> SumSkipNa(Column(grp, Volume)),
         reps_total |-> SumSkipNa(Column(grp, Reps))]

\* Mutant: the buckets are returned in descending order of their keys.
compute_weekly_descending(df) ==
    IF ~((gcols \cup {"Gewicht", "Reps"}) \subseteq df.cols) THEN Raise("KeyError")
    ELSE LET keys == SetToSortedSeq(LAMBDA a, b : GKeyLess(b, a),
                                    {GKey(df.rows[i]) : i \in 1..Len(df.rows)})
             Bucket(k) == weekly_bucket(df.rows, k)
         IN  Return(Frame(WeeklyCols, MapSeq(Bucket, keys)))

compute_weekly(df) ==
    IF ~((gcols \cup {"Gewicht", "Reps"}) \subseteq df.cols) THEN Raise("KeyError")
    ELSE LET keys == SetToSortedSeq(GKeyLess, {GKey(df.rows[i]) : i \in 1..Len(df.rows)})
             Bucket(k) == weekly_bucket(df.rows, k)
         IN  Return(Frame(WeeklyCols, SortBy(RowGKeyLess, MapSeq(Bucket, keys))))

----------------------------------------------------------------------------
(* PR Detector: Dashboard.py add_pr_flags *)

PrCols == WeeklyCols \cup {"pr_eligible", "eligible_weight", "prev_best", "new_pr"}

fillna(x, v) == IF IsNa(x) THEN v ELSE x

\* Mutant: a missing max_reps is filled with the threshold instead of 0.
pr_eligible_fill_min(r, min_reps) == fillna(r.max_reps, min_reps) >= min_reps

pr_eligible(r, min_reps) == fillna(r.max_reps, 0) >= min_reps

eligible_weight(r, min_reps) == IF pr_eligible(r, min_reps) THEN r.max_gewicht ELSE NaN

\* s.cummax() at position i of the pair's series: NaN where s[i] is NaN,
\* otherwise the maximum of the values up to i that are not NaN.
cummax(w, i, min_reps) ==
    IF IsNa(eligible_weight(w[i], min_reps)) THEN NaN
    ELSE MaxOf({eligible_weight(w[j], min_reps) :
                  j \in {j \in 1..i : PairKey(w[j]) = PairKey(w[i])}} \ {NaN})

\* Mutant: the previous row is the previous row of the same exercise, whatever its
\* muscle group.
prev_best_by_exercise(w, i, min_reps) ==
    LET before == {j \in 1..(i - 1) : w[j].Oefening = w[i].Oefening}
    IN  IF before = {} THEN NaN ELSE cummax(w, MaxOf(before), min_reps)

\* Mutant: the previous row's eligible_weight, without the running maximum.
prev_best_without_cummax(w, i, min_reps) ==
    LET before == {j \in 1..(i - 1) : PairKey(w[j]) = PairKey(w[i])}
    IN  IF before = {} THEN NaN ELSE eligible_weight(w[MaxOf(before)], min_reps)

\* .shift(1) inside the pair's group: the value of the previous row of the pair.
prev_best(w, i, min_reps) ==
    LET before == {j \in 1..(i - 1) : PairKey(w[j]) = PairKey(w[i])}
    IN  IF before = {} THEN NaN ELSE cummax(w, MaxOf(before), min_reps)

\* Mutant: a bucket without prev_best is no new PR.
new_pr_needs_prev_best(r, pb, min_reps) ==
    pr_eligible(r, min_reps) /\ ~IsNa(pb) /\ ~IsNa(r.max_gewicht) /\ r.max_gewicht > pb

\* Mutant: a tie with prev_best counts as a new PR.
new_pr_tie(r, pb, min_reps) ==
    pr_eligible(r, min_reps) /\ (IsNa(pb) \/ (~IsNa(r.max_gewicht) /\ r.max_gewicht >= pb))

new_pr(r, pb, min_reps) ==
    pr_eligible(r, min_reps) /\ (IsNa(pb) \/ (~IsNa(r.max_gewicht) /\ r.max_gewicht > pb))

pr_row(w, i, min_reps) ==
    LET r == w[i]
        pb == prev_best(w, i, min_reps)
    IN  [Spiergroep |-> r.Spiergroep, Oefening |-> r.Oefening, week_start |-> r.week_start,
         max_gewicht |-> r.max_gewicht, sets |-> r.sets, avg_gewicht |-> r.avg_gewicht,
         tonnage |-> r.tonnage, max_reps |-> r.max_reps, volume |-> r.volume,
         reps_total |-> r.reps_total,
         pr_eligible |-> pr_eligible(r, min_reps),
         eligible_weight |-> eligible_weight(r, min_reps),
         prev_best |-> pb,
         new_pr |-> new_pr(r, pb, min_reps)]

add_pr_flags(df, min_reps) ==
    IF ~((gcols \cup {"max_reps", "max_gewicht"}) \subseteq df.cols) THEN Raise("KeyError")
    ELSE LET w == SortBy(RowGKeyLess, df.rows)
         IN  Return(Frame(df.cols \cup PrCols, [i \in 1..Len(w) |-> pr_row(w, i, min_reps)]))

----------------------------------------------------------------------------
(* Weekday Splitter: Dashboard.py split_by_weekday *)

DayCols == {"weekday", "sets", "tonnage", "volume", "day_name"}

day_name(d) ==
    CASE d = 0 -> "Ma" [] d = 1 -> "Di" [] d = 2 -> "Wo" [] d = 3 -> "Do"
      [] d = 4 -> "Vr" [] d = 5 -> "Za" [] d = 6 -> "Zo" [] OTHER -> "nan"

weekday_row(rows, d) ==
    LET OnDay(r) == r.weekday = d
        grp == FilterSeq(OnDay, rows)
        Gewicht(r) == r.Gewicht
        Volume(r) == Mul(r.Gewicht, r.Reps)
    IN  [weekday |-> d,
         sets |-> Len(grp),
         tonnage |-> SumSkipNa(Column(grp, Gewicht)),
         volume |-> SumSkipNa(Column(grp, Volume)),
         day_name |-> day_name(d)]

split_by_weekday(df) ==
    IF ~({"Gewicht", "Reps", "weekday"} \subseteq df.cols) THEN Raise("KeyError")
    ELSE LET IntLess(a, b) == a < b
             days == SetToSortedSeq(IntLess, {df.rows[i].weekday : i \in 1..Len(df.rows)})
             DayRow(d) == weekday_row(df.rows, d)
         IN  Return(Frame(DayCols, MapSeq(DayRow, days)))

----------------------------------------------------------------------------
(* Plateau Classifier: Dashboard.py plateau_alerts *)

AlertCols ==
    {"Spiergroep", "Oefening", "spiergroep", "last_week", "last_pr_week", "weeks_since_pr",
     "last_max", "plateau"}

RECURSIVE LastNotNa(_)
LastNotNa(xs) ==
    IF xs = <<>> THEN NaN
    ELSE IF IsNa(xs[Len(xs)]) THEN LastNotNa(SubSeq(xs, 1, Len(xs) - 1))
    ELSE xs[Len(xs)]

PairLess(a, b) == TextLess(a[1], b[1]) \/ (a[1] = b[1] /\ TextLess(a[2], b[2]))

weeks_since_pr(global_last_week, last_pr_week) ==
    IF IsNaT(last_pr_week) THEN NaNFrac
    ELSE Frac(global_last_week - last_pr_week, DaysPerWeek * TicksPerDay)

\* Mutant: a pair without PR is a plateau whatever include_never_pr says.
is_plateau_never_pr(since, last_pr_week, plateau_weeks, include_never_pr) ==
    \/ ~IsNaFrac(since) /\ FracLeq(Frac(plateau_weeks, 1), since)
    \/ IsNaT(last_pr_week)

is_plateau(since, last_pr_week, plateau_weeks, include_never_pr) ==
    \/ ~IsNaFrac(since) /\ FracLeq(Frac(plateau_weeks, 1), since)
    \/ include_never_pr /\ IsNaT(last_pr_week)

\* Mutant: last_max is the heaviest max_gewicht of the pair.
alert_row_all_time_max(w, k, global_last_week, plateau_weeks, include_never_pr) ==
    LET InPair(r) == PairKey(r) = k
        grp == FilterSeq(InPair, w)
        IsPr(r) == r.new_pr
        prs == FilterSeq(IsPr, grp)
        Week(r) == r.week_start
        MaxGewicht(r) == r.max_gewicht
        last_pr == IF prs = <<>> THEN NaT ELSE MaxOf(Range(Column(prs, Week)))
        since == weeks_since_pr(global_last_week, last_pr)
    IN  [Spiergroep |-> k[1], Oefening |-> k[2], spiergroep |-> k[1],
         last_week |-> MaxOf(Range(Column(grp, Week))),
         last_max |-> MaxSkipNa(Column(grp, MaxGewicht)),
         last_pr_week |-> last_pr,
         weeks_since_pr |-> since,
         plateau |-> is_plateau(since, last_pr, plateau_weeks, include_never_pr)]

\* Mutant: last_pr_week is taken over the PR weeks of every pair.
alert_row_any_pair_pr(w, k, global_last_week, plateau_weeks, include_never_pr) ==
    LET InPair(r) == PairKey(r) = k
        grp == FilterSeq(InPair, w)
        IsPr(r) == r.new_pr
        prs == FilterSeq(IsPr, w)
        Week(r) == r.week_start
        MaxGewicht(r) == r.max_gewicht
        last_pr == IF prs = <<>> THEN NaT ELSE MaxOf(Range(Column(prs, Week)))
        since == weeks_since_pr(global_last_week, last_pr)
    IN  [Spiergroep |-> k[1], Oefening |-> k[2], spiergroep |-> k[1],
         last_week |-> MaxOf(Range(Column(grp, Week))),
         last_max |-> LastNotNa(Column(grp, MaxGewicht)),
         last_pr_week |-> last_pr,
         weeks_since_pr |-> since,
         plateau |-> is_plateau(since, last_pr, plateau_weeks, include_never_pr)]

alert_row(w, k, global_last_week, plateau_weeks, include_never_pr) ==
    LET InPair(r) == PairKey(r) = k
        grp == FilterSeq(InPair, w)
        IsPr(r) == r.new_pr
        prs == FilterSeq(IsPr, grp)
        Week(r) == r.week_start
        MaxGewicht(r) == r.max_gewicht
        last_pr == IF prs = <<>> THEN NaT ELSE MaxOf(Range(Column(prs, Week)))
        since == weeks_since_pr(global_last_week, last_pr)
    IN  [Spiergroep |-> k[1], Oefening |-> k[2], spiergroep |-> k[1],
         last_week |-> MaxOf(Range(Column(grp, Week))),
         last_max |-> LastNotNa(Column(grp, MaxGewicht)),
         last_pr_week |-> last_pr,
         weeks_since_pr |-> since,
         plateau |-> is_plateau(since, last_pr, plateau_weeks, include_never_pr)]

\* sort_values(by=[plateau, weeks_since_pr, Oefening], ascending=[False, False, True],
\*             na_position="last")
\* Mutant: weeks_since_pr sorted ascending.
AlertLess_since_ascending(a, b) ==
    \/ a.plateau /\ ~b.plateau
    \/ /\ a.plateau = b.plateau
       /\ \/ ~IsNaFrac(a.weeks_since_pr) /\ IsNaFrac(b.weeks_since_pr)
          \/ /\ ~IsNaFrac(a.weeks_since_pr) /\ ~IsNaFrac(b.weeks_since_pr)
             /\ FracLess(a.weeks_since_pr, b.weeks_since_pr)
          \/ /\ a.weeks_since_pr = b.weeks_since_pr
             /\ TextLess(a.Oefening, b.Oefening)

AlertLess(a, b) ==
    \/ a.plateau /\ ~b.plateau
    \/ /\ a.plateau = b.plateau
       /\ \/ ~IsNaFrac(a.weeks_since_pr) /\ IsNaFrac(b.weeks_since_pr)
          \/ /\ ~IsNaFrac(a.weeks_since_pr) /\ ~IsNaFrac(b.weeks_since_pr)
             /\ FracLess(b.weeks_since_pr, a.weeks_since_pr)
          \/ /\ a.weeks_since_pr = b.weeks_since_pr
             /\ TextLess(a.Oefening, b.Oefening)

\* Mutant: weeks_since_pr is counted from the pair's own last week.
plateau_alerts_own_last_week(df, plateau_weeks, include_never_pr) ==
    IF IsEmpty(df) THEN Return(Frame(AlertCols, <<>>))
    ELSE IF ~((gcols \cup {"max_gewicht", "new_pr"}) \subseteq df.cols) THEN Raise("KeyError")
    ELSE LET w == SortBy(RowGKeyLess, df.rows)
             own_last_week(k) == MaxOf({w[i].week_start : i \in {i \in 1..Len(w) : PairKey(w[i]) = k}})
             pairs == SetToSortedSeq(PairLess, {PairKey(w[i]) : i \in 1..Len(w)})
             Row(k) == alert_row(w, k, own_last_week(k), plateau_weeks, include_never_pr)
         IN  Return(Frame(AlertCols, SortBy(AlertLess, MapSeq(Row, pairs))))

plateau_alerts(df, plateau_weeks, include_never_pr) ==
    IF IsEmpty(df) THEN Return(Frame(AlertCols, <<>>))
    ELSE IF ~((gcols \cup {"max_gewicht", "new_pr"}) \subseteq df.cols) THEN Raise("KeyError")
    ELSE LET w == SortBy(RowGKeyLess, df.rows)
             Week(r) == r.week_start
             global_last_week == MaxOf(Range(Column(w, Week)))
             pairs == SetToSortedSeq(PairLess, {PairKey(w[i]) : i \in 1..Len(w)})
             Row(k) == alert_row(w, k, global_last_week, plateau_weeks, include_never_pr)
         IN  Return(Frame(AlertCols, SortBy(AlertLess, MapSeq(Row, pairs))))

----------------------------------------------------------------------------
(* Hypertrophy Scorer: Dashboard.py hypertrophy_score *)

ScoreCols == {"Spiergroep", "week_start", "volume_like", "intensity", "sets", "hypertrophy_score"}

MgKey(r) == <<r.Spiergroep, r.week_start>>
MgKeyLess(a, b) == TextLess(a[1], b[1]) \/ (a[1] = b[1] /\ a[2] < b[2])

RECURSIVE FracSum(_)
FracSum(qs) ==
    IF qs = <<>> THEN Frac(0, 1)
    ELSE IF IsNaFrac(Head(qs)) THEN FracSum(Tail(qs))
    ELSE FracAdd(Head(qs), FracSum(Tail(qs)))

FracMean(qs) ==
    LET n == Cardinality({i \in 1..Len(qs) : ~IsNaFrac(qs[i])})
    IN  IF n = 0 THEN NaNFrac ELSE FracDiv(FracSum(qs), Frac(n, 1))

FracMax(S) == CHOOSE x \in S : \A y \in S : FracLeq(y, x)
FracMin(S) == CHOOSE x \in S : \A y \in S : FracLeq(x, y)
FracAbs(q) == [num |-> Abs(q.num), den |-> q.den]

\* np.isclose(mx, mn): |mx - mn| <= 1e-8 + 1e-5 * |mn|
isclose(mx, mn) ==
    LET a == FracAbs(FracSub(mx, mn))
        c == FracAbs(mn)
    IN  a.num * c.den <= (a.den * c.den + 1000 * a.den * c.num) \div 100000000

\* Mutant: a window without spread is normalized to 0.
_minmax_flat_zero(S, x) ==
    LET mn == FracMin(S)
        mx == FracMax(S)
    IN  IF isclose(mx, mn) THEN Frac(0, 1)
        ELSE FracMul(FracDiv(FracSub(x, mn), FracSub(mx, mn)), Frac(100, 1))

_minmax(S, x) ==
    LET mn == FracMin(S)
        mx == FracMax(S)
    IN  IF isclose(mx, mn) THEN Frac(50, 1)
        ELSE FracMul(FracDiv(FracSub(x, mn), FracSub(mx, mn)), Frac(100, 1))

volume_like(r) == IF IsNa(r.volume) THEN r.tonnage ELSE r.volume

mg_row(rows, k) ==
    LET InGroup(r) == MgKey(r) = k
        grp == FilterSeq(InGroup, rows)
        Intensity(r) == r.avg_gewicht
        Sets(r) == r.sets
    IN  [Spiergroep |-> k[1], week_start |-> k[2],
         volume_like |-> SumSkipNa(Column(grp, volume_like)),
         intensity |-> FracMean(Column(grp, Intensity)),
         sets |-> SumSkipNa(Column(grp, Sets))]

Max2(a, b) == IF a >= b THEN a ELSE b

\* Mutant: the window starts after the cutoff week.
score_row_after_cutoff(mg, i, cutoff) ==
    LET r == mg[i]
        win == {j \in 1..Len(mg) : mg[j].week_start > cutoff /\ mg[j].Spiergroep = r.Spiergroep}
        vol_norm == _minmax({Frac(mg[j].volume_like, 1) : j \in win}, Frac(r.volume_like, 1))
        int_norm == _minmax({mg[j].intensity : j \in win}, r.intensity)
        half == Frac(1, 2)
    IN  [Spiergroep |-> r.Spiergroep, week_start |-> r.week_start,
         volume_like |-> r.volume_like, intensity |-> r.intensity, sets |-> r.sets,
         hypertrophy_score |->
             IF r.week_start > cutoff
             THEN FracAdd(FracMul(half, vol_norm), FracMul(half, int_norm))
             ELSE NaNFrac]

score_row(mg, i, cutoff) ==
    LET r == mg[i]
        win == {j \in 1..Len(mg) : mg[j].week_start >= cutoff /\ mg[j].Spiergroep = r.Spiergroep}
        vol_norm == _minmax({Frac(mg[j].volume_like, 1) : j \in win}, Frac(r.volume_like, 1))
        int_norm == _minmax({mg[j].intensity : j \in win}, r.intensity)
        half == Frac(1, 2)
    IN  [Spiergroep |-> r.Spiergroep, week_start |-> r.week_start,
         volume_like |-> r.volume_like, intensity |-> r.intensity, sets |-> r.sets,
         hypertrophy_score |->
             IF r.week_start >= cutoff
             THEN FracAdd(FracMul(half, vol_norm), FracMul(half, int_norm))
             ELSE NaNFrac]

hypertrophy_score(df, lookback_weeks) ==
    IF ~({"volume", "tonnage", "Spiergroep", "week_start", "avg_gewicht", "sets"} \subseteq df.cols)
    THEN Raise("KeyError")
    ELSE LET keys == SetToSortedSeq(MgKeyLess, {MgKey(df.rows[i]) : i \in 1..Len(df.rows)})
             MgRow(k) == mg_row(df.rows, k)
             mg == MapSeq(MgRow, keys)
             Week(r) == r.week_start
             last_week == MaxOf(Range(Column(mg, Week)))
             cutoff == last_week - DaysPerWeek * Max2(1, lookback_weeks) * TicksPerDay
         IN  IF mg = <<>> THEN Return(Frame(ScoreCols, <<>>))
             ELSE Return(Frame(ScoreCols, [i \in 1..Len(mg) |-> score_row(mg, i, cutoff)]))

----------------------------------------------------------------------------
(* Login session: streamlit_app.py *)

\* A key that is not there, or whose value is None.
Missing == "None"

Truthy(v) == v \notin {Missing, ""}

SessionOf(user, at, rt) == [user |-> user, access_token |-> at, refresh_token |-> rt]

\* for k in ["user", "access_token", "refresh_token"]: st.session_state.pop(k, None)
NoSession == SessionOf(Missing, Missing, Missing)

is_authed == session_state.user # Missing

_persist_tokens_to_url(access_token, refresh_token) == [at |-> access_token, rt |-> refresh_token]

_clear_tokens_from_url == [at |-> Missing, rt |-> Missing]

----------------------------------------------------------------------------
(* State: the callers of the components *)

Components ==
    {"load_data_from_supabase", "compute_weekly", "add_pr_flags", "plateau_alerts",
     "hypertrophy_score", "split_by_weekday"}

Idle == [c \in Components |-> "idle"]

Outcome(res) == IF res.exc = "none" THEN "returned" ELSE res.exc

DefaultArgs ==
    [week_start_day |-> WEEK_START_DAY_DEFAULT, min_reps |-> PR_MIN_REPS,
     plateau_weeks |-> PlateauWeeksDefault, include_never_pr |-> TRUE,
     lookback_weeks |-> LookbackWeeksDefault]

NoCache == [k \in {} |-> EmptyFrame]

CachePut(c, k, v) == [x \in (DOMAIN c) \cup {k} |-> IF x = k THEN v ELSE c[x]]

\* Mutant: the memo is keyed by user_id alone.
load_data_from_supabase_one_key(c, res_data, week_start_day) ==
    IF DOMAIN c # {} THEN c[CHOOSE k \in DOMAIN c : TRUE]
    ELSE fetch_and_normalize(res_data, week_start_day)

\* @st.cache_data: the body runs only when (user_id, week_start_day) has no entry.
load_data_from_supabase(c, res_data, week_start_day) ==
    IF week_start_day \in DOMAIN c THEN c[week_start_day]
    ELSE fetch_and_normalize(res_data, week_start_day)

Load(week_start_day) ==
    /\ status["load_data_from_supabase"] = "idle"
    /\ data' = load_data_from_supabase(cache, store, week_start_day)
    /\ cache' = CachePut(cache, week_start_day, data')
    /\ args' = [args EXCEPT !.week_start_day = week_start_day]
    /\ status' = [status EXCEPT !["load_data_from_supabase"] = "returned"]
    /\ UNCHANGED <<store, weekly, weekly_pr, alerts, mg_score, day_split, excel_import, auth>>

ComputeWeekly ==
    /\ status["load_data_from_supabase"] = "returned"
    /\ status["compute_weekly"] = "idle"
    /\ \E res \in {compute_weekly(data)} :
           /\ weekly' = res.df
           /\ status' = [status EXCEPT !["compute_weekly"] = Outcome(res)]
    /\ UNCHANGED <<store, cache, data, weekly_pr, alerts, mg_score, day_split, args,
                   excel_import, auth>>

AddPrFlags(min_reps) ==
    /\ status["compute_weekly"] = "returned"
    /\ status["add_pr_flags"] = "idle"
    /\ \E res \in {add_pr_flags(weekly, min_reps)} :
           /\ weekly_pr' = res.df
           /\ status' = [status EXCEPT !["add_pr_flags"] = Outcome(res)]
    /\ args' = [args EXCEPT !.min_reps = min_reps]
    /\ UNCHANGED <<store, cache, data, weekly, alerts, mg_score, day_split, excel_import, auth>>

PlateauAlerts(plateau_weeks, include_never_pr) ==
    /\ status["add_pr_flags"] = "returned"
    /\ status["plateau_alerts"] = "idle"
    /\ \E res \in {plateau_alerts(weekly_pr, plateau_weeks, include_never_pr)} :
           /\ alerts' = res.df
           /\ status' = [status EXCEPT !["plateau_alerts"] = Outcome(res)]
    /\ args' = [args EXCEPT !.plateau_weeks = plateau_weeks,
                            !.include_never_pr = include_never_pr]
    /\ UNCHANGED <<store, cache, data, weekly, weekly_pr, mg_score, day_split, excel_import, auth>>

HypertrophyScore(lookback_weeks) ==
    /\ status["compute_weekly"] = "returned"
    /\ status["hypertrophy_score"] = "idle"
    /\ \E res \in {hypertrophy_score(weekly, lookback_weeks)} :
           /\ mg_score' = res.df
           /\ status' = [status EXCEPT !["hypertrophy_score"] = Outcome(res)]
    /\ args' = [args EXCEPT !.lookback_weeks = lookback_weeks]
    /\ UNCHANGED <<store, cache, data, weekly, weekly_pr, alerts, day_split, excel_import, auth>>

SplitByWeekday ==
    /\ status["load_data_from_supabase"] = "returned"
    /\ status["split_by_weekday"] = "idle"
    /\ \E res \in {split_by_weekday(data)} :
           /\ day_split' = res.df
           /\ status' = [status EXCEPT !["split_by_weekday"] = Outcome(res)]
    /\ UNCHANGED <<store, cache, data, weekly, weekly_pr, alerts, mg_score, args,
                   excel_import, auth>>

----------------------------------------------------------------------------
(* Inputs *)

Monday(week) == week * DaysPerWeek * TicksPerDay

NoHash == <<>>

\* A row written by the app: import_hash stays NULL.
SetRow(d, ex, sg, w, r) ==
    [workout_date |-> d, exercise_name |-> ex, spiergroepen |-> sg, weight_kg |-> w, reps |-> r,
     import_hash |-> NoHash]

RepsValues == {NaN, 1, 2}
MinRepsValues == {0, 1, 2}

\* Sets of one exercise of one muscle group, at most one row per (week, weight, reps).
TimelineRows ==
    {SetRow(Monday(k), <<"x">>, <<"B">>, w, r) : k \in 0..MaxWeek, w \in 1..MaxWeight, r \in RepsValues}

\* Sets of the same exercise logged under two muscle groups, all with enough reps.
TwoPairRows ==
    {SetRow(Monday(k), <<"x">>, sg, w, 2) : k \in 0..MaxWeek, sg \in {<<"B">>, <<"C">>}, w \in 1..MaxWeight}

RowRank(r) == <<r.workout_date, r.weight_kg, r.reps>>

RowLess(a, b) ==
    \/ TextLess(a.spiergroepen, b.spiergroepen)
    \/ /\ a.spiergroepen = b.spiergroepen
       /\ \E i \in 1..3 : /\ RowRank(a)[i] < RowRank(b)[i]
                          /\ \A j \in 1..(i - 1) : RowRank(a)[j] = RowRank(b)[j]

TimelineCand == SetToSortedSeq(RowLess, TimelineRows)
\* The store returns them against the order of their keys.
TwoPairCand == SetToSortedSeq(LAMBDA a, b : RowLess(b, a), TwoPairRows)

\* store is made of 1..n distinct rows of the sequence cand, in its order.
StoreOf(cand, n) ==
    \E k \in 1..n : \E q \in [1..k -> 1..Len(cand)] :
        /\ \A i \in 1..(k - 1) : q[i] < q[i + 1]
        /\ store = [i \in 1..k |-> cand[q[i]]]

InitIdle ==
    /\ cache = NoCache
    /\ data = EmptyFrame
    /\ weekly = EmptyFrame
    /\ weekly_pr = EmptyFrame
    /\ alerts = EmptyFrame
    /\ mg_score = EmptyFrame
    /\ day_split = EmptyFrame
    /\ args = DefaultArgs
    /\ status = Idle
    /\ excel_import = [rows |-> <<>>, deduped |-> <<>>]
    /\ session_state = SessionOf("user", "at1", "rt1")
    /\ query_params = _persist_tokens_to_url("at1", "rt1")
    /\ auth_status = "logged in"

----------------------------------------------------------------------------
(* The PR pipeline on one timeline: load, compute_weekly, add_pr_flags *)

InitPR ==
    /\ StoreOf(TimelineCand, MaxRows) \/ StoreOf(TwoPairCand, MaxRows)
    /\ InitIdle

NextPR ==
    \/ Load(WEEK_START_DAY_DEFAULT)
    \/ ComputeWeekly
    \/ \E m \in MinRepsValues : AddPrFlags(m)

SpecPR == InitPR /\ [][NextPR]_vars

----------------------------------------------------------------------------
(* The Weekday Splitter on sets logged on any day of the week *)

DayRows ==
    {SetRow(d * TicksPerDay, <<"x">>, <<"B">>, w, r) :
        d \in 0..(DaysPerWeek - 1), w \in {1, MaxWeight}, r \in {NaN, 2}}

DayCand == SetToSortedSeq(RowLess, DayRows)

InitWeekday ==
    /\ StoreOf(DayCand, MaxRows)
    /\ InitIdle

NextWeekday ==
    \/ Load(WEEK_START_DAY_DEFAULT)
    \/ SplitByWeekday

SpecWeekday == InitWeekday /\ [][NextWeekday]_vars

----------------------------------------------------------------------------
(* The Normalizer on one raw row (any muscle-group text, exercise text, date, weight,  *)
(* reps), on two rows with any two timestamps of the first MaxWeek weeks, or on two   *)
(* rows with any present, missing or unparseable date, weight and reps                *)

MuscleAlphabet == {"B", "C", ",", " "}

ExerciseTexts == {None, <<>>, <<" ">>, <<"x">>, <<" ", "x">>, <<"x", " ", "y">>}

MidWeek == Monday(1) + 2 * TicksPerDay + 1

InitNormalizer ==
    /\ \/ \E n \in 0..MaxText : \E sg \in [1..n -> MuscleAlphabet] : \E ex \in ExerciseTexts :
              store = <<SetRow(MidWeek, ex, sg, 1, 2)>>
       \/ \E ex \in ExerciseTexts :
              store = <<SetRow(MidWeek, ex, None, 1, 2)>>
       \/ \E d \in {MidWeek, NaT, BadValue}, w \in {2, NaN, BadValue}, r \in {2, NaN, BadValue} :
              store = <<SetRow(d, <<"x">>, <<"B">>, w, r)>>
       \/ \E d1, d2 \in 0..(Monday(MaxWeek) - 1) :
              store = <<SetRow(d1, <<"x">>, <<"B">>, 1, 2), SetRow(d2, <<"x">>, <<"B">>, 1, 2)>>
       \/ \E d1, d2 \in {MidWeek, NaT, BadValue}, w1, w2 \in {2, NaN, BadValue},
              r1, r2 \in {2, NaN, BadValue} :
              store = <<SetRow(d1, <<"x">>, <<"B">>, w1, r1), SetRow(d2, <<"y">>, <<"C">>, w2, r2)>>
    /\ InitIdle

NextNormalizer == \E wsd \in 0..(DaysPerWeek - 1) : Load(wsd)

SpecNormalizer == InitNormalizer /\ [][NextNormalizer]_vars

----------------------------------------------------------------------------
(* The components called with any parameter value, also on the empty store *)

ConfigCand ==
    <<SetRow(Monday(0), <<"x">>, <<"B">>, 1, 2),
      SetRow(Monday(0) + TicksPerDay, <<"x">>, <<"B">>, 2, 1),
      SetRow(Monday(1), <<"x">>, <<"B">>, 2, 2),
      SetRow(Monday(2), <<"x">>, <<"C">>, 1, NaN)>>

ConfigWeekStartDays == {-1, WEEK_START_DAY_DEFAULT, DaysPerWeek}
ConfigMinReps == {-1, 2}
ConfigPlateauWeeks == {0, 1}
ConfigLookbackWeeks == {0, 1}

InitComponents ==
    /\ store = <<>> \/ StoreOf(ConfigCand, 2)
    /\ InitIdle

NextComponents ==
    \/ \E wsd \in ConfigWeekStartDays : Load(wsd)
    \/ ComputeWeekly
    \/ \E m \in ConfigMinReps : AddPrFlags(m)
    \/ \E pw \in ConfigPlateauWeeks, inc \in BOOLEAN : PlateauAlerts(pw, inc)
    \/ \E lb \in ConfigLookbackWeeks : HypertrophyScore(lb)
    \/ SplitByWeekday

SpecComponents == InitComponents /\ [][NextComponents]_vars

----------------------------------------------------------------------------
(* The plateau pipeline on two timelines: load, compute_weekly, add_pr_flags, *)
(* plateau_alerts                                                             *)

PlateauMinReps == 2

\* Sets of two (muscle group, exercise) pairs, whose order by muscle group is the reverse
\* of their order by exercise: light or heavy with enough reps, or heavy with too few reps.
PlateauRows ==
    {SetRow(Monday(k), p[2], p[1], wr[1], wr[2]) :
        k \in 0..MaxWeek,
        p \in {<<(<<"B">>), (<<"y">>)>>, <<(<<"C">>), (<<"x">>)>>},
        wr \in {<<1, PlateauMinReps>>, <<MaxWeight, PlateauMinReps>>, <<MaxWeight, 1>>}}

PlateauRowLess(a, b) ==
    \/ TextLess(a.exercise_name, b.exercise_name)
    \/ a.exercise_name = b.exercise_name /\ RowLess(a, b)

PlateauCand == SetToSortedSeq(PlateauRowLess, PlateauRows)

\* At most one set per pair and week.
InitPlateau ==
    /\ StoreOf(PlateauCand, MaxRows)
    /\ \A i, j \in 1..Len(store) :
           (store[i].exercise_name = store[j].exercise_name
               /\ store[i].workout_date = store[j].workout_date) => i = j
    /\ InitIdle

NextPlateau ==
    \/ Load(WEEK_START_DAY_DEFAULT)
    \/ ComputeWeekly
    \/ AddPrFlags(PlateauMinReps)
    \/ \E pw \in 1..MaxWeek, inc \in BOOLEAN : PlateauAlerts(pw, inc)

SpecPlateau == InitPlateau /\ [][NextPlateau]_vars

----------------------------------------------------------------------------
(* The score pipeline on two muscle groups: load, compute_weekly, hypertrophy_score *)

\* Sets of one exercise logged under two muscle groups: light with two reps or without
\* reps, or heavy with one rep or with two reps.
ScoreRows ==
    {SetRow(Monday(k), <<"x">>, sg, wr[1], wr[2]) :
        k \in 0..MaxWeek, sg \in {<<"B">>, <<"C">>},
        wr \in {<<1, 2>>, <<1, NaN>>, <<MaxWeight, 1>>, <<MaxWeight, 2>>}}

ScoreCand == SetToSortedSeq(RowLess, ScoreRows)

InitScore ==
    /\ StoreOf(ScoreCand, MaxRows)
    /\ InitIdle

NextScore ==
    \/ Load(WEEK_START_DAY_DEFAULT)
    \/ ComputeWeekly
    \/ \E lb \in 1..MaxWeek : HypertrophyScore(lb)

SpecScore == InitScore /\ [][NextScore]_vars

----------------------------------------------------------------------------
(* The two aggregations of the same data: load, compute_weekly, split_by_weekday *)

\* Sets of one exercise on a Monday, the Tuesday after it and the next Monday, tagged with
\* no, one or two muscle groups, light or heavy, with or without reps.
TotalsRows ==
    {SetRow(d, <<"x">>, sg, w, r) :
        d \in {Monday(0), Monday(0) + TicksPerDay, Monday(1)},
        sg \in {<<>>, <<"B">>, <<"B", ",", "C">>},
        w \in {1, MaxWeight}, r \in {NaN, 2}}

InitTotals ==
    /\ \E cand \in {SetToSortedSeq(RowLess, TotalsRows)} : StoreOf(cand, MaxRows)
    /\ InitIdle

NextTotals ==
    \/ Load(WEEK_START_DAY_DEFAULT)
    \/ ComputeWeekly
    \/ SplitByWeekday

SpecTotals == InitTotals /\ [][NextTotals]_vars

----------------------------------------------------------------------------
(* The application: the writers of workout_sets and the Dashboard page *)

\* sha1 of f"{user_id}|{workout_date}|{exercise_name}|{weight_kg}|{reps}" for the one
\* importing user: the text it hashes (sha1 taken as free of collisions).  A weight is a
\* float and prints with ".0", reps is an int, a missing value prints as None and the
\* date of an empty Datum cell as NaT.
make_import_hash(row) ==
    LET Digit(d) == <<"0", "1", "2", "3", "4", "5", "6", "7", "8", "9">>[d + 1]
        RECURSIVE Digits(_)
        Digits(n) == IF n < 10 THEN <<Digit(n)>> ELSE Digits(n \div 10) \o <<Digit(n % 10)>>
        Str(v, suffix) == IF IsNa(v) THEN <<"N", "o", "n", "e">> ELSE Digits(v) \o suffix
        Date(d) == IF IsNaT(d) THEN <<"N", "a", "T">> ELSE Digits(d)
    IN  <<"u", "|">> \o Date(row.workout_date) \o <<"|">> \o row.exercise_name \o <<"|">>
            \o Str(row.weight_kg, <<".", "0">>) \o <<"|">> \o Str(row.reps, <<>>)

\* One spreadsheet line as the import script uploads it: the date without its time of day
\* (pd.to_datetime of an empty cell is NaT, whose date() is NaT again).
extract_row(x) ==
    LET row == SetRow(IF IsNaT(x.Datum) THEN NaT ELSE Normalize(x.Datum),
                      Strip(AsStr(x.Oefening)), Strip(AsStr(x.Spiergroep)), x.Gewicht, x.Reps)
    IN  [row EXCEPT !.import_hash = make_import_hash(row)]

\* The lines whose Datum pd.to_datetime cannot parse are skipped.
extract_rows(sheet) == MapSeq(extract_row, SelectSeq(sheet, LAMBDA x : x.Datum # BadValue))

\* A deduplication that keeps the first row of a key.
RECURSIVE dedupe_keeps_first(_)
dedupe_keeps_first(rows) ==
    IF rows = <<>> THEN <<>>
    ELSE LET init == dedupe_keeps_first(SubSeq(rows, 1, Len(rows) - 1))
             last == rows[Len(rows)]
         IN  IF \E i \in 1..Len(init) : init[i].import_hash = last.import_hash
             THEN init
             ELSE Append(init, last)

\* deduped = {(user_id, import_hash): r for r in rows}: a key keeps the place of its first
\* row and the value of its last one.
RECURSIVE dedupe(_)
dedupe(rows) ==
    IF rows = <<>> THEN <<>>
    ELSE LET last == rows[Len(rows)]
             SameKey(r) == r.import_hash = last.import_hash
             OtherKey(r) == ~SameKey(r)
             init == SubSeq(rows, 1, Len(rows) - 1)
         IN  IF \E i \in 1..Len(init) : SameKey(init[i])
             THEN LET first == CHOOSE i \in 1..Len(init) :
                                   SameKey(init[i]) /\ \A j \in 1..(i - 1) : ~SameKey(init[j])
                      rest == dedupe(SelectSeq(init, OtherKey))
                      before == Cardinality({r.import_hash : r \in Range(SubSeq(init, 1, first - 1))})
                  IN  SubSeq(rest, 1, before) \o <<last>> \o SubSeq(rest, before + 1, Len(rest))
             ELSE Append(dedupe(init), last)

\* upsert(on_conflict="user_id,import_hash") of one row.
upsert_row(st, row) ==
    IF \E i \in 1..Len(st) : st[i].import_hash = row.import_hash
    THEN [i \in 1..Len(st) |-> IF st[i].import_hash = row.import_hash THEN row ELSE st[i]]
    ELSE Append(st, row)

RECURSIVE upsert(_, _)
upsert(st, rows) ==
    IF rows = <<>> THEN st ELSE upsert(upsert_row(st, Head(rows)), Tail(rows))

\* import_excel_to_supabase.py main: another process, which never touches st.cache_data.
ImportExcel(sheet) ==
    /\ \E rows \in {extract_rows(sheet)} :
       \E deduped \in {dedupe(rows)} :
       \E st \in {upsert(store, deduped)} :
           /\ rows # <<>>
           /\ Len(st) <= MaxStore
           /\ excel_import' = [rows |-> rows, deduped |-> deduped]
           /\ store' = st
    /\ UNCHANGED <<cache, data, weekly, weekly_pr, alerts, mg_score, day_split, args, status, auth>>

\* lib/Input.py insert_set_row, update_set_row, delete_set_row: each ends with
\* st.cache_data.clear().
InsertSetRow(d, ex_name, spiergroep, weight, reps) ==
    /\ Len(store) < MaxStore
    /\ store' = Append(store, SetRow(d, ex_name, spiergroep, weight, reps))
    /\ cache' = NoCache
    /\ UNCHANGED <<data, weekly, weekly_pr, alerts, mg_score, day_split, args, status,
                   excel_import, auth>>

UpdateSetRow(set_id, weight, reps) ==
    /\ set_id \in 1..Len(store)
    /\ store' = [store EXCEPT ![set_id].weight_kg = weight, ![set_id].reps = reps]
    /\ cache' = NoCache
    /\ UNCHANGED <<data, weekly, weekly_pr, alerts, mg_score, day_split, args, status,
                   excel_import, auth>>

DeleteSetRow(set_id) ==
    /\ set_id \in 1..Len(store)
    /\ store' = [i \in 1..(Len(store) - 1) |-> IF i < set_id THEN store[i] ELSE store[i + 1]]
    /\ cache' = NoCache
    /\ UNCHANGED <<data, weekly, weekly_pr, alerts, mg_score, day_split, args, status,
                   excel_import, auth>>

Skipped == [exc |-> "skipped", df |-> EmptyFrame]
After(prev, res) == IF prev.exc = "none" THEN res ELSE Skipped
Ran(res) == IF res.exc = "skipped" THEN "idle" ELSE Outcome(res)

\* One run of the Dashboard page script (lines 334-369) with memo c: st.stop() when not
\* logged in and on empty data, and an exception ends the run.
PageRun(c, week_start_day, plateau_weeks, include_never_pr, lookback_weeks) ==
    /\ is_authed
    /\ \E d \in {load_data_from_supabase(c, store, week_start_day)} :
       \E w \in {IF IsEmpty(d) THEN Skipped ELSE compute_weekly(d)} :
       \E pr \in {After(w, add_pr_flags(w.df, PR_MIN_REPS))} :
       \E al \in {After(pr, plateau_alerts(pr.df, plateau_weeks, include_never_pr))} :
       \E sc \in {After(al, hypertrophy_score(w.df, lookback_weeks))} :
       \E ds \in {After(sc, split_by_weekday(d))} :
           /\ data' = d
           /\ cache' = CachePut(c, week_start_day, d)
           /\ weekly' = w.df
           /\ weekly_pr' = pr.df
           /\ alerts' = al.df
           /\ mg_score' = sc.df
           /\ day_split' = ds.df
           /\ status' = [load_data_from_supabase |-> "returned",
                         compute_weekly |-> Ran(w),
                         add_pr_flags |-> Ran(pr),
                         plateau_alerts |-> Ran(al),
                         hypertrophy_score |-> Ran(sc),
                         split_by_weekday |-> Ran(ds)]
           /\ args' = [week_start_day |-> week_start_day, min_reps |-> PR_MIN_REPS,
                       plateau_weeks |-> plateau_weeks, include_never_pr |-> include_never_pr,
                       lookback_weeks |-> lookback_weeks]
           /\ UNCHANGED <<store, excel_import, auth>>

DashboardRun(week_start_day, plateau_weeks, include_never_pr, lookback_weeks) ==
    PageRun(cache, week_start_day, plateau_weeks, include_never_pr, lookback_weeks)

\* The "Refresh data" button: st.cache_data.clear(), then st.rerun().
RefreshData(week_start_day, plateau_weeks, include_never_pr, lookback_weeks) ==
    PageRun(NoCache, week_start_day, plateau_weeks, include_never_pr, lookback_weeks)

AppWeekStartDays == {0, 1}
AppPlateauWeeks == {PlateauWeeksDefault}
AppLookbackWeeks == {LookbackWeeksDefault}
AppWeights == {1, 2}
AppReps == {PR_MIN_REPS}

SheetRows ==
    {[Datum |-> Monday(1), Oefening |-> <<"x">>, Spiergroep |-> sg, Gewicht |-> 2,
      Reps |-> PR_MIN_REPS] : sg \in {<<"B">>, <<"C">>}}

Sheets == UNION {[1..n -> SheetRows] : n \in 1..2}

Init ==
    /\ store = <<>>
    /\ InitIdle

Next ==
    \/ \E w \in AppWeights, r \in AppReps : InsertSetRow(Monday(0), <<"x">>, <<"B">>, w, r)
    \/ \E i \in 1..MaxStore, w \in AppWeights, r \in AppReps : UpdateSetRow(i, w, r)
    \/ \E i \in 1..MaxStore : DeleteSetRow(i)
    \/ \E sheet \in Sheets : ImportExcel(sheet)
    \/ \E wsd \in AppWeekStartDays, pw \in AppPlateauWeeks, inc \in {TRUE}, lb \in AppLookbackWeeks :
           DashboardRun(wsd, pw, inc, lb)
    \/ \E wsd \in AppWeekStartDays, pw \in AppPlateauWeeks, inc \in {TRUE}, lb \in AppLookbackWeeks :
           RefreshData(wsd, pw, inc, lb)

Spec == Init /\ [][Next]_vars

----------------------------------------------------------------------------
(* The Excel import on spreadsheets of up to MaxStore lines *)

\* Lines of a spreadsheet: one set, the same set with other muscle groups, a later time of
\* day and a padded exercise name, and lines that differ from it in the exercise, the
\* weight, the reps or the date (an empty Datum) alone, or whose Datum cannot be parsed.
ImportLines ==
    LET line == [Datum |-> Monday(1), Oefening |-> <<"x">>, Spiergroep |-> <<"B">>,
                 Gewicht |-> MaxWeight, Reps |-> PR_MIN_REPS]
    IN  {line,
         [line EXCEPT !.Datum = Monday(1) + 1, !.Oefening = <<"x", " ">>, !.Spiergroep = <<"C">>],
         [line EXCEPT !.Oefening = <<"y">>],
         [line EXCEPT !.Gewicht = NaN],
         [line EXCEPT !.Reps = NaN],
         [line EXCEPT !.Datum = NaT],
         [line EXCEPT !.Datum = BadValue]}

\* The table is empty or holds one set that was logged in the app.
InitImport ==
    /\ store \in {<<>>, <<SetRow(Monday(1), <<"x">>, <<"B">>, MaxWeight, PR_MIN_REPS)>>}
    /\ InitIdle

NextImport ==
    \E n \in 1..MaxStore : \E sheet \in [1..n -> ImportLines] : ImportExcel(sheet)

SpecImport == InitImport /\ [][NextImport]_vars

----------------------------------------------------------------------------
(* Login, logout and session restore: streamlit_app.py *)

\* What sign_in_with_password gives: an exception, or a response whose user and session
\* are there or not.
LoginResults ==
    [exc : {"AuthApiError"}, user : {Missing}, access_token : {Missing}, refresh_token : {Missing}]
    \cup [exc : {"none"}, user : {Missing, "user"}, access_token : {Missing},
          refresh_token : {Missing}]
    \cup [exc : {"none"}, user : {Missing, "user"}, access_token : {"at2"}, refresh_token : {"rt2"}]

\* The login form is rendered by a run whose session restore left the user logged out.
login(res) ==
    /\ ~is_authed
    /\ ~(Truthy(query_params.at) /\ Truthy(query_params.rt))
    /\ IF res.exc # "none"
       THEN /\ auth_status' = res.exc
            /\ UNCHANGED <<session_state, query_params>>
       ELSE IF res.user = Missing \/ res.access_token = Missing
       THEN /\ auth_status' = "Login failed"
            /\ UNCHANGED <<session_state, query_params>>
       ELSE /\ session_state' = SessionOf(res.user, res.access_token, res.refresh_token)
            /\ query_params' = _persist_tokens_to_url(res.access_token, res.refresh_token)
            /\ auth_status' = "logged in"
    /\ UNCHANGED <<store, cache, data, weekly, weekly_pr, alerts, mg_score, day_split, args, status,
                   excel_import>>

\* The Logout button of the sidebar; an exception of sign_out is swallowed.
logout(sign_out_raises) ==
    /\ is_authed
    /\ session_state' = NoSession
    /\ query_params' = _clear_tokens_from_url
    /\ cache' = NoCache
    /\ auth_status' = "logged out"
    /\ UNCHANGED <<store, data, weekly, weekly_pr, alerts, mg_score, day_split, args, status,
                   excel_import>>

\* Mutant: a failed restore leaves the tokens it has copied from the URL.
_try_restore_session_from_url_keeps_tokens(set_session_raises, user_res) ==
    /\ IF is_authed \/ ~Truthy(query_params.at) \/ ~Truthy(query_params.rt)
       THEN UNCHANGED auth
       ELSE IF ~set_session_raises /\ user_res = "user"
       THEN /\ session_state' = SessionOf(user_res, query_params.at, query_params.rt)
            /\ auth_status' = "restored"
            /\ UNCHANGED query_params
       ELSE /\ session_state' = SessionOf(Missing, query_params.at, query_params.rt)
            /\ query_params' = _clear_tokens_from_url
            /\ auth_status' = "restore failed"
    /\ UNCHANGED <<store, cache, data, weekly, weekly_pr, alerts, mg_score, day_split, args, status,
                   excel_import>>

\* Runs at the top of every run of the script.  set_session raises or not; get_user raises,
\* gives no user or gives the user.
_try_restore_session_from_url(set_session_raises, user_res) ==
    /\ IF is_authed \/ ~Truthy(query_params.at) \/ ~Truthy(query_params.rt)
       THEN UNCHANGED auth
       ELSE IF ~set_session_raises /\ user_res = "user"
       THEN /\ session_state' = SessionOf(user_res, query_params.at, query_params.rt)
            /\ auth_status' = "restored"
            /\ UNCHANGED query_params
       ELSE /\ session_state' = NoSession
            /\ query_params' = _clear_tokens_from_url
            /\ auth_status' = "restore failed"
    /\ UNCHANGED <<store, cache, data, weekly, weekly_pr, alerts, mg_score, day_split, args, status,
                   excel_import>>

\* The browser loads the app's URL: a new session, whose state is empty, with the at and rt
\* that the URL carries.
NewBrowserSession(at, rt) ==
    /\ session_state' = NoSession
    /\ query_params' = [at |-> at, rt |-> rt]
    /\ auth_status' = "new session"
    /\ UNCHANGED <<store, cache, data, weekly, weekly_pr, alerts, mg_score, day_split, args, status,
                   excel_import>>

InitAuth ==
    /\ store = <<SetRow(Monday(0), <<"x">>, <<"B">>, 1, PR_MIN_REPS)>>
    /\ InitIdle

NextAuth ==
    \/ \E res \in LoginResults : login(res)
    \/ \E sign_out_raises \in BOOLEAN : logout(sign_out_raises)
    \/ \E set_session_raises \in BOOLEAN, user_res \in {"raises", Missing, "user"} :
           _try_restore_session_from_url(set_session_raises, user_res)
    \/ \E at \in {Missing, "", "at1", "at2"}, rt \in {Missing, "", "rt1", "rt2"} :
           NewBrowserSession(at, rt)
    \/ DashboardRun(WEEK_START_DAY_DEFAULT, PlateauWeeksDefault, TRUE, LookbackWeeksDefault)

SpecAuth == InitAuth /\ [][NextAuth]_vars

----------------------------------------------------------------------------
(* Runs of the Dashboard page with different sidebar settings on the same store *)

\* Sets of exercise x that make a PR in week 1 and a heavier one in week 4 and none on the
\* Monday and the Tuesday of week 6, and a set of exercise y with too few reps.
RunsCand ==
    <<SetRow(Monday(1), <<"x">>, <<"B">>, 1, PR_MIN_REPS),
      SetRow(Monday(4), <<"x">>, <<"B">>, 2, PR_MIN_REPS),
      SetRow(Monday(6), <<"x">>, <<"B">>, 1, PR_MIN_REPS),
      SetRow(Monday(6) + TicksPerDay, <<"x">>, <<"B">>, 1, PR_MIN_REPS),
      SetRow(Monday(6), <<"y">>, <<"C">>, 1, 1)>>

\* The sidebar settings of a run: two week start days, two values of the plateau slider
\* (2..12), the never-PR checkbox, two values of the lookback slider (4..24).
RunsSettings ==
    [week_start_day : {0, 1}, plateau_weeks : {2, PlateauWeeksDefault},
     include_never_pr : BOOLEAN, lookback_weeks : {4, 5}]

InitRuns ==
    /\ StoreOf(RunsCand, Len(RunsCand))
    /\ InitIdle

NextRuns ==
    \/ \E s \in RunsSettings :
           DashboardRun(s.week_start_day, s.plateau_weeks, s.include_never_pr, s.lookback_weeks)
    \/ \E s \in RunsSettings :
           RefreshData(s.week_start_day, s.plateau_weeks, s.include_never_pr, s.lookback_weeks)

SpecRuns == InitRuns /\ [][NextRuns]_vars

----------------------------------------------------------------------------
(* Claims about the PR Detector, under SpecPR *)

PrReturned == status["add_pr_flags"] = "returned"
PrRows == weekly_pr.rows
PrIdx == 1..Len(PrRows)

SamePair(a, b) == a.Spiergroep = b.Spiergroep /\ a.Oefening = b.Oefening

\* The buckets of the same timeline in an earlier week, and the eligible ones among them.
Earlier(i) ==
    {j \in PrIdx : SamePair(PrRows[j], PrRows[i]) /\ PrRows[j].week_start < PrRows[i].week_start}
EarlierEligible(i) == {j \in Earlier(i) : PrRows[j].pr_eligible}

RepsOrZero(x) == IF IsNa(x) THEN 0 ELSE x

\* C1: prev_best of every bucket is the maximum eligible_weight over the earlier buckets
\* of its timeline, and is absent only when none of them is pr_eligible.
C1_PrevBestIsRunningMax ==
    PrReturned =>
        \A i \in PrIdx :
            PrRows[i].prev_best =
                IF EarlierEligible(i) = {} THEN NaN
                ELSE MaxOf({PrRows[j].eligible_weight : j \in EarlierEligible(i)})

\* C2: a bucket flagged new_pr is strictly heavier than every earlier eligible bucket of
\* its timeline, so the flagged weights of a timeline increase strictly with the week.
C2_PrExceedsEarlierEligible ==
    PrReturned =>
        \A i \in PrIdx :
            PrRows[i].new_pr =>
                /\ \A j \in EarlierEligible(i) : PrRows[i].max_gewicht > PrRows[j].eligible_weight
                /\ \A j \in Earlier(i) : PrRows[j].new_pr => PrRows[j].max_gewicht < PrRows[i].max_gewicht

\* C3: new_pr is true exactly when max_reps (absent counted as 0) reaches min_reps and
\* prev_best is absent or strictly below max_gewicht; a tie with prev_best is no new PR.
C3_NewPrRule ==
    PrReturned =>
        \A i \in PrIdx :
            LET r == PrRows[i]
            IN  /\ r.new_pr <=>
                       /\ RepsOrZero(r.max_reps) >= args.min_reps
                       /\ (IsNa(r.prev_best) \/ r.max_gewicht > r.prev_best)
                /\ (~IsNa(r.prev_best) /\ r.max_gewicht = r.prev_best) => ~r.new_pr
                /\ RepsOrZero(r.max_reps) < args.min_reps => ~r.new_pr

\* The scenario of three consecutive weeks (heavier in week 2, same weight with too few
\* reps in week 3): flags true, true, false.
C3_Scenario ==
    /\ PrReturned
    /\ args.min_reps = 2
    /\ Len(PrRows) = 3
    /\ \A i \in 1..3 : PrRows[i].week_start = Monday(i - 1)
    /\ <<PrRows[1].max_gewicht, PrRows[2].max_gewicht, PrRows[3].max_gewicht>> = <<1, 2, 2>>
    /\ <<PrRows[1].max_reps, PrRows[2].max_reps, PrRows[3].max_reps>> = <<2, 2, 1>>
    /\ <<PrRows[1].new_pr, PrRows[2].new_pr, PrRows[3].new_pr>> = <<TRUE, TRUE, FALSE>>

\* A later prev_best owes nothing to bucket i: it is absent or the weight of another
\* earlier bucket whose max_reps is present and reaches min_reps.
NoContribution(i) ==
    \A j \in PrIdx :
        i \in Earlier(j) =>
            \/ IsNa(PrRows[j].prev_best)
            \/ \E k \in Earlier(j) \ {i} :
                   /\ ~IsNa(PrRows[k].max_reps)
                   /\ PrRows[k].max_reps >= args.min_reps
                   /\ PrRows[k].max_gewicht = PrRows[j].prev_best

AbsentRepsIneligible ==
    \A i \in PrIdx :
        IsNa(PrRows[i].max_reps) =>
            /\ ~PrRows[i].pr_eligible
            /\ IsNa(PrRows[i].eligible_weight)
            /\ ~PrRows[i].new_pr
            /\ NoContribution(i)

\* C8 as claimed: for every min_reps >= 0 a bucket without max_reps is not pr_eligible, has
\* no eligible_weight, is no new PR and adds nothing to a later prev_best.
C8_AbsentRepsIneligibleAnyMinReps == PrReturned => AbsentRepsIneligible

\* C8 amended: the same for every min_reps >= 1 (with min_reps = 0 the bucket counts as
\* 0 reps and is pr_eligible).
C8_AbsentRepsIneligibleFromOne == (PrReturned /\ args.min_reps >= 1) => AbsentRepsIneligible

\* A bucket without reps, heavier than a later prev_best that is present.
C8_Witness ==
    /\ PrReturned
    /\ args.min_reps >= 1
    /\ \E i, j \in PrIdx :
           /\ i \in Earlier(j)
           /\ IsNa(PrRows[i].max_reps)
           /\ ~IsNa(PrRows[j].prev_best)
           /\ PrRows[i].max_gewicht > PrRows[j].prev_best

\* C9: a bucket is flagged new_pr only if one set of the bucket has reps >= min_reps
\* (absent reps counted as 0) and the bucket's max_gewicht as its weight.
C9_PrLiftedByEligibleSet ==
    PrReturned =>
        \A i \in PrIdx :
            PrRows[i].new_pr =>
                \E n \in 1..Len(data.rows) :
                    /\ GKey(data.rows[n]) = GKey(PrRows[i])
                    /\ RepsOrZero(data.rows[n].Reps) >= args.min_reps
                    /\ data.rows[n].Gewicht = PrRows[i].max_gewicht

----------------------------------------------------------------------------
(* Claims about the Weekday Splitter, under SpecWeekday *)

DayReturned == status["split_by_weekday"] = "returned"

DaysLogged == {data.rows[n].weekday : n \in 1..Len(data.rows)}

\* C4: the output of split_by_weekday has exactly 7 rows, row d + 1 for weekday d of 0..6,
\* and a weekday without records has sets, tonnage and volume equal to 0.
C4_SevenWeekdayRows ==
    DayReturned =>
        /\ Len(day_split.rows) = DaysPerWeek
        /\ \A d \in 0..(DaysPerWeek - 1) :
               /\ day_split.rows[d + 1].weekday = d
               /\ d \notin DaysLogged =>
                      /\ day_split.rows[d + 1].sets = 0
                      /\ day_split.rows[d + 1].tonnage = 0
                      /\ day_split.rows[d + 1].volume = 0

----------------------------------------------------------------------------
(* Claims about the Normalizer, under SpecNormalizer *)

LoadReturned == status["load_data_from_supabase"] = "returned"

\* The text of a raw field has something other than whitespace (and, for the muscle-group
\* field, commas) in it.
HasText(t, blanks) == t # None /\ \E i \in 1..Len(t) : t[i] \notin blanks

RawKept(raw) ==
    /\ HasText(raw.spiergroepen, Whitespace \cup {","})
    /\ HasText(raw.exercise_name, Whitespace)

\* The comma-separated parts of the raw muscle-group text, trimmed.
RawParts(raw) == {Strip(p) : p \in Range(Split(raw.spiergroepen, ","))}

\* C5: a raw record whose muscle-group field or exercise name is missing, empty, only
\* whitespace (or only commas and whitespace) yields no record, and every record has a
\* non-empty Spiergroep that is a trimmed part of the raw field and a non-empty Oefening
\* that is the trimmed raw exercise name.
C5_BlankFieldsDropped ==
    LoadReturned =>
        \A n \in 1..Len(store) :
            /\ ~RawKept(store[n]) => data.rows = <<>>
            /\ \A k \in 1..Len(data.rows) :
                   /\ data.rows[k].Spiergroep # <<>>
                   /\ data.rows[k].Oefening # <<>>
                   /\ RawKept(store[n]) =>
                          /\ data.rows[k].Spiergroep \in RawParts(store[n])
                          /\ data.rows[k].Oefening = Strip(store[n].exercise_name)

----------------------------------------------------------------------------
(* Claims about the components' parameters and the empty store, under SpecComponents *)

\* The component was invoked with its parameter outside the allowed range.
OutOfRange ==
    [load_data_from_supabase |-> args.week_start_day \notin 0..(DaysPerWeek - 1),
     compute_weekly |-> FALSE,
     add_pr_flags |-> args.min_reps < 0,
     plateau_alerts |-> args.plateau_weeks < 1,
     hypertrophy_score |-> args.lookback_weeks < 1,
     split_by_weekday |-> FALSE]

\* C6: a component invoked with an out-of-range parameter (week_start_day outside 0..6,
\* min_reps < 0, plateau_weeks < 1, lookback_weeks < 1) fails: it does not return a table.
C6_OutOfRangeFails ==
    \A c \in Components :
        (status[c] # "idle" /\ OutOfRange[c]) => status[c] # "returned"

Table ==
    [load_data_from_supabase |-> data,
     compute_weekly |-> weekly,
     add_pr_flags |-> weekly_pr,
     plateau_alerts |-> alerts,
     hypertrophy_score |-> mg_score,
     split_by_weekday |-> day_split]

\* C7: on a store without records, a downstream component applied to the Normalizer's
\* output does not raise and returns a table without rows.
C7_EmptyStoreDegrades ==
    (store = <<>> /\ LoadReturned) =>
        \A c \in Components \ {"load_data_from_supabase"} :
            status[c] # "idle" => (status[c] = "returned" /\ Table[c].rows = <<>>)

----------------------------------------------------------------------------
(* Claims about the application, under Spec *)

\* C10: a run of the Dashboard page, after any writes to the store, uses the
\* normalization of the store's contents at the time of the run.
C10_RunReadsCurrentStore ==
    [][(\E wsd \in AppWeekStartDays, pw \in AppPlateauWeeks, lb \in AppLookbackWeeks :
            DashboardRun(wsd, pw, TRUE, lb) \/ RefreshData(wsd, pw, TRUE, lb))
       => data' = fetch_and_normalize(store', args'.week_start_day)]_vars

----------------------------------------------------------------------------
(* Claims about the Plateau Classifier, under SpecPlateau *)

AlertsReturned == status["plateau_alerts"] = "returned"
AlertRows == alerts.rows
AlertIdx == 1..Len(AlertRows)

\* weeks_since_pr of the row is present and at least n weeks.
SinceAtLeast(a, n) == a.weeks_since_pr.den # 0 /\ a.weeks_since_pr.num >= n * a.weeks_since_pr.den

\* C11: plateau is true exactly when weeks_since_pr is present and >= plateau_weeks, or
\* last_pr_week is absent and include_never_pr is true; a pair that never had a PR is no
\* plateau when include_never_pr is false.
C11_PlateauRule ==
    AlertsReturned =>
        \A i \in AlertIdx :
            LET a == AlertRows[i]
            IN  /\ a.plateau <=>
                       \/ SinceAtLeast(a, args.plateau_weeks)
                       \/ IsNaT(a.last_pr_week) /\ args.include_never_pr
                /\ (IsNaT(a.last_pr_week) /\ ~args.include_never_pr) => ~a.plateau

\* Both cases in one output: a pair without PR that is no plateau (include_never_pr false)
\* next to a pair whose PR is plateau_weeks old or older.
C11_Witness ==
    /\ AlertsReturned
    /\ ~args.include_never_pr
    /\ \E i, j \in AlertIdx :
           /\ IsNaT(AlertRows[i].last_pr_week) /\ ~AlertRows[i].plateau
           /\ SinceAtLeast(AlertRows[j], args.plateau_weeks) /\ AlertRows[j].plateau

\* The maximum week_start of the table handed to plateau_alerts, over all timelines.
GlobalLastWeek == MaxOf({weekly_pr.rows[j].week_start : j \in 1..Len(weekly_pr.rows)})

WeekTicks == DaysPerWeek * TicksPerDay

\* C12: a row with a last_pr_week has weeks_since_pr = (global_last_week - last_pr_week) /
\* 7 days, global_last_week being the one maximum week_start over all timelines; a row
\* without last_pr_week has no weeks_since_pr.
C12_WeeksSincePr ==
    AlertsReturned =>
        \A i \in AlertIdx :
            LET a == AlertRows[i]
            IN  IF IsNaT(a.last_pr_week) THEN a.weeks_since_pr.den = 0
                ELSE /\ a.weeks_since_pr.den > 0
                     /\ a.weeks_since_pr.num * WeekTicks =
                            (GlobalLastWeek - a.last_pr_week) * a.weeks_since_pr.den

\* The scenario, in weeks of the model: the pair's last PR and last bucket lie MaxWeek weeks
\* before the global last week, which another timeline sets; with plateau_weeks one less
\* the pair is a plateau.
C12_Scenario ==
    /\ AlertsReturned
    /\ args.plateau_weeks = MaxWeek - 1
    /\ \E i \in AlertIdx :
           /\ AlertRows[i].last_pr_week = GlobalLastWeek - MaxWeek * WeekTicks
           /\ AlertRows[i].last_week < GlobalLastWeek
           /\ AlertRows[i].weeks_since_pr = Frac(MaxWeek, 1)
           /\ AlertRows[i].plateau

SinceAbsent(a) == a.weeks_since_pr.den = 0

\* weeks_since_pr of both rows is present, and a's is larger than / equal to b's.
SinceGreater(a, b) ==
    /\ ~SinceAbsent(a) /\ ~SinceAbsent(b)
    /\ a.weeks_since_pr.num * b.weeks_since_pr.den > b.weeks_since_pr.num * a.weeks_since_pr.den
SinceEqual(a, b) ==
    \/ SinceAbsent(a) /\ SinceAbsent(b)
    \/ /\ ~SinceAbsent(a) /\ ~SinceAbsent(b)
       /\ a.weeks_since_pr.num * b.weeks_since_pr.den = b.weeks_since_pr.num * a.weeks_since_pr.den

\* Row a may stand before row b in the output.
InAlertOrder(a, b) ==
    \/ a.plateau /\ ~b.plateau
    \/ /\ a.plateau = b.plateau
       /\ \/ ~SinceAbsent(a) /\ SinceAbsent(b)
          \/ SinceGreater(a, b)
          \/ SinceEqual(a, b) /\ (a.Oefening = b.Oefening \/ TextLess(a.Oefening, b.Oefening))

\* C13: the rows of plateau_alerts are ordered: plateau rows first; then by weeks_since_pr
\* descending, rows without weeks_since_pr last; then by exercise name ascending.
C13_AlertOrder ==
    AlertsReturned =>
        \A i, j \in AlertIdx : i < j => InAlertOrder(AlertRows[i], AlertRows[j])

\* The sort moved a row: of two rows alike in plateau, the pair that comes first by muscle
\* group stands second because its weeks_since_pr is the shorter one.
C13_Witness ==
    /\ AlertsReturned
    /\ Len(AlertRows) = 2
    /\ TextLess(AlertRows[2].Spiergroep, AlertRows[1].Spiergroep)
    /\ AlertRows[1].plateau = AlertRows[2].plateau
    /\ SinceGreater(AlertRows[1], AlertRows[2])

PrPairs == {PairKey(weekly_pr.rows[j]) : j \in 1..Len(weekly_pr.rows)}
PairIdx(p) == {j \in 1..Len(weekly_pr.rows) : PairKey(weekly_pr.rows[j]) = p}

\* The PR table with the buckets of pair p edited by f: each kept, dropped, or kept with
\* its new_pr flag flipped; the buckets of the other pairs stay as they are.
Edited(p, f) ==
    LET Row(j) == IF j \notin PairIdx(p) \/ f[j] = "keep" THEN <<weekly_pr.rows[j]>>
                  ELSE IF f[j] = "flip" THEN <<[weekly_pr.rows[j] EXCEPT !.new_pr = ~@]>>
                  ELSE <<>>
        marked == [j \in 1..Len(weekly_pr.rows) |-> Row(j)]
        Kept(m) == m # <<>>
    IN  Frame(weekly_pr.cols, [n \in DOMAIN SelectSeq(marked, Kept) |-> SelectSeq(marked, Kept)[n][1]])

Edits(p) == [PairIdx(p) -> {"keep", "drop", "flip"}]

LastWeekOf(df) == MaxOf({df.rows[j].week_start : j \in 1..Len(df.rows)})

\* The output row of pair k in rows, as a set (empty when the pair has no row).
RowOfPair(rows, k) == {rows[j] : j \in {j \in 1..Len(rows) : PairKey(rows[j]) = k}}

SameVerdict(a, b) ==
    /\ a.last_pr_week = b.last_pr_week
    /\ a.weeks_since_pr = b.weeks_since_pr
    /\ a.plateau = b.plateau

\* C14: if a second input differs from the first only in the buckets of one pair and has
\* the same global last week, every other pair's row has the same last_pr_week,
\* weeks_since_pr and plateau in both outputs.
C14_OtherTimelinesUnaffected ==
    AlertsReturned =>
        \A p \in PrPairs : PrPairs # {p} =>
            \A f \in Edits(p) :
                \A alt \in {Edited(p, f)} :
                    LastWeekOf(alt) = GlobalLastWeek =>
                        \A out \in {plateau_alerts(alt, args.plateau_weeks, args.include_never_pr).df.rows} :
                            \A k \in PrPairs \ {p} :
                                /\ RowOfPair(out, k) # {}
                                /\ \A a \in RowOfPair(AlertRows, k), b \in RowOfPair(out, k) :
                                       SameVerdict(a, b)

\* An edit of one pair's buckets that keeps the global last week and changes that pair's
\* own verdict, while another pair has a row with a last_pr_week.
C14_Witness ==
    /\ AlertsReturned
    /\ \E p \in PrPairs : PrPairs # {p} /\ \E f \in Edits(p) :
           \E out \in {plateau_alerts(Edited(p, f), args.plateau_weeks, args.include_never_pr).df.rows} :
               /\ LastWeekOf(Edited(p, f)) = GlobalLastWeek
               /\ \E a \in RowOfPair(AlertRows, p), b \in RowOfPair(out, p) : ~SameVerdict(a, b)
               /\ \E k \in PrPairs \ {p} : \E a \in RowOfPair(AlertRows, k) : ~IsNaT(a.last_pr_week)

----------------------------------------------------------------------------
(* Claims about the Hypertrophy Scorer, under SpecScore *)

ScoreReturned == status["hypertrophy_score"] = "returned"
ScoreRowsOut == mg_score.rows
ScoreIdx == 1..Len(ScoreRowsOut)

Scored(i) == ScoreRowsOut[i].hypertrophy_score.den # 0

\* The cutoff of the call: the maximum week_start of the output minus lookback_weeks weeks.
ScoreLastWeek == MaxOf({ScoreRowsOut[j].week_start : j \in ScoreIdx})
ScoreCutoff == ScoreLastWeek - args.lookback_weeks * WeekTicks

\* The rows of the muscle group of row i that lie inside the window.
Window(i) ==
    {j \in ScoreIdx : /\ ScoreRowsOut[j].Spiergroep = ScoreRowsOut[i].Spiergroep
                      /\ ScoreRowsOut[j].week_start >= ScoreCutoff}

FlatWindow(i) ==
    \A j \in Window(i) :
        /\ ScoreRowsOut[j].volume_like = ScoreRowsOut[i].volume_like
        /\ ScoreRowsOut[j].intensity = ScoreRowsOut[i].intensity

\* C15: every score lies in 0..100, and every row of a window whose volume_like and
\* intensity are constant (a window of one row too) has score 50.
C15_ScoreRange ==
    ScoreReturned =>
        \A i \in ScoreIdx :
            LET q == ScoreRowsOut[i].hypertrophy_score
            IN  /\ Scored(i) => (q.den > 0 /\ 0 <= q.num /\ q.num <= 100 * q.den)
                /\ (i \in Window(i) /\ FlatWindow(i)) => (q.den # 0 /\ q.num = 50 * q.den)

\* One output with the scores 0 and 100 in the window of one muscle group and 50 in a
\* constant window of the other.
C15_Witness ==
    /\ ScoreReturned
    /\ \E i, j, k \in ScoreIdx :
           /\ j \in Window(i) /\ Scored(i) /\ Scored(j)
           /\ ScoreRowsOut[i].hypertrophy_score = Frac(0, 1)
           /\ ScoreRowsOut[j].hypertrophy_score = Frac(100, 1)
           /\ k \in Window(k) /\ FlatWindow(k)
           /\ ScoreRowsOut[k].hypertrophy_score = Frac(50, 1)

\* The (muscle group, week) keys of the table handed to hypertrophy_score, and its last week.
WeeklyMgKeys == {MgKey(weekly.rows[j]) : j \in 1..Len(weekly.rows)}
WeeklyLastWeek == MaxOf({weekly.rows[j].week_start : j \in 1..Len(weekly.rows)})

\* C16: the output has exactly one row per distinct (muscle group, week_start) of the
\* input, and a row has a score exactly when its week_start >= last_week - 7 *
\* lookback_weeks days, last_week being the maximum week_start over all muscle groups.
C16_OneRowPerKeyScoredInWindow ==
    ScoreReturned =>
        /\ {MgKey(ScoreRowsOut[i]) : i \in ScoreIdx} = WeeklyMgKeys
        /\ Len(ScoreRowsOut) = Cardinality(WeeklyMgKeys)
        /\ \A i \in ScoreIdx :
               Scored(i) <=>
                   ScoreRowsOut[i].week_start >= WeeklyLastWeek - args.lookback_weeks * WeekTicks

\* A muscle group whose only rows lie before the cutoff: returned, none of them scored,
\* while a row exactly at the cutoff week is scored.
C16_Witness ==
    /\ ScoreReturned
    /\ \E i, j \in ScoreIdx :
           /\ ScoreRowsOut[i].week_start < WeeklyLastWeek - args.lookback_weeks * WeekTicks
           /\ \A k \in ScoreIdx :
                  ScoreRowsOut[k].Spiergroep = ScoreRowsOut[i].Spiergroep => ~Scored(k)
           /\ ScoreRowsOut[j].week_start = WeeklyLastWeek - args.lookback_weeks * WeekTicks
           /\ Scored(j)

----------------------------------------------------------------------------
(* Claims about week_start and the muscle-group split, under SpecNormalizer *)

DataIdx == 1..Len(data.rows)

\* The day number of a timestamp (day 0 is a Monday) and the number of the 7-day period,
\* aligned to week start day w, that the day lies in.
DayOf(ts) == ts \div TicksPerDay
PeriodOf(ts, w) == (DayOf(ts) + DaysPerWeek - w) \div DaysPerWeek

\* C17: for every date d and week_start_day w in 0..6, week_start(d) is a midnight with
\* week_start(d) <= d < week_start(d) + 7 days that falls on weekday w; two dates have the
\* same week_start exactly when they lie in the same w-aligned 7-day period.
C17_WeekStart ==
    LoadReturned =>
        /\ \A i \in DataIdx :
               LET r == data.rows[i]
               IN  /\ r.week_start % TicksPerDay = 0
                   /\ r.week_start <= r.Datum
                   /\ r.Datum < r.week_start + WeekTicks
                   /\ DayOf(r.week_start) % DaysPerWeek = args.week_start_day
        /\ \A i, j \in DataIdx :
               (data.rows[i].week_start = data.rows[j].week_start) <=>
                   (PeriodOf(data.rows[i].Datum, args.week_start_day) =
                        PeriodOf(data.rows[j].Datum, args.week_start_day))

\* Two timestamps of different Monday-based weeks, one of them not a midnight, that share
\* the period of a week start day other than Monday, and so the week_start.
C17_Witness ==
    /\ LoadReturned
    /\ args.week_start_day # 0
    /\ Len(data.rows) = 2
    /\ data.rows[1].Datum \div WeekTicks # data.rows[2].Datum \div WeekTicks
    /\ data.rows[1].Datum % TicksPerDay # 0
    /\ data.rows[1].week_start = data.rows[2].week_start

\* The trimmed non-empty comma-separated parts of the raw muscle-group field, in order.
NonEmptyParts(raw) ==
    LET NonEmpty(t) == t # <<>>
    IN  FilterSeq(NonEmpty, MapSeq(Strip, Split(raw.spiergroepen, ",")))

\* A raw record that no other rule of the Normalizer drops or alters: date, exercise name,
\* weight present, reps present or missing, muscle-group field a text.
WellFormed(raw) ==
    /\ raw.workout_date >= 0
    /\ raw.weight_kg >= 0
    /\ raw.reps # BadValue
    /\ raw.spiergroepen # None
    /\ HasText(raw.exercise_name, Whitespace)

\* C18: a raw record whose muscle-group field has k non-empty comma-separated parts (after
\* trimming) yields exactly k records, the i-th with the i-th part as Spiergroep and with
\* the date, exercise name, weight and reps of the raw record; empty parts yield nothing.
C18_OneRecordPerPart ==
    (LoadReturned /\ Len(store) = 1 /\ WellFormed(store[1])) =>
        LET raw == store[1]
            parts == NonEmptyParts(raw)
        IN  /\ Len(data.rows) = Len(parts)
            /\ \A i \in 1..Len(data.rows) :
                   /\ i <= Len(parts) => data.rows[i].Spiergroep = parts[i]
                   /\ data.rows[i].Datum = raw.workout_date
                   /\ data.rows[i].Oefening = Strip(raw.exercise_name)
                   /\ data.rows[i].Gewicht = raw.weight_kg
                   /\ data.rows[i].Reps = raw.reps

----------------------------------------------------------------------------
(* Claims about the Weekly Aggregator, under SpecPR *)

WeeklyReturned == status["compute_weekly"] = "returned"
WeeklyIdx == 1..Len(weekly.rows)

\* The records of the bucket, and those of them that have reps.
Records(b) == {n \in 1..Len(data.rows) : GKey(data.rows[n]) = GKey(b)}
WithReps(b) == {n \in Records(b) : data.rows[n].Reps # NaN}

RECURSIVE SumIdx(_, _)
SumIdx(F(_), S) ==
    IF S = {} THEN 0
    ELSE LET n == CHOOSE x \in S : TRUE
         IN  F(n) + SumIdx(F, S \ {n})

\* C19: volume is the sum of weight * reps over the bucket's records that have reps and
\* reps_total the sum of their reps; a record without reps still counts in sets and
\* tonnage; max_reps is the largest reps of the bucket, absent exactly when no record of
\* the bucket has reps.
C19_VolumeAndReps ==
    WeeklyReturned =>
        \A i \in WeeklyIdx :
            LET b == weekly.rows[i]
            IN  /\ b.volume = SumIdx(LAMBDA n : data.rows[n].Gewicht * data.rows[n].Reps, WithReps(b))
                /\ b.reps_total = SumIdx(LAMBDA n : data.rows[n].Reps, WithReps(b))
                /\ b.sets = Cardinality(Records(b))
                /\ b.tonnage = SumIdx(LAMBDA n : data.rows[n].Gewicht, Records(b))
                /\ (b.max_reps = NaN) <=> (WithReps(b) = {})
                /\ WithReps(b) # {} =>
                       /\ \E n \in WithReps(b) : data.rows[n].Reps = b.max_reps
                       /\ \A n \in WithReps(b) : data.rows[n].Reps <= b.max_reps

\* A bucket of a record with reps and a record without, next to a bucket whose records all
\* lack reps.
C19_Witness ==
    /\ WeeklyReturned
    /\ \E i, j \in WeeklyIdx :
           /\ WithReps(weekly.rows[i]) # {}
           /\ WithReps(weekly.rows[i]) # Records(weekly.rows[i])
           /\ weekly.rows[i].volume > 0
           /\ WithReps(weekly.rows[j]) = {}
           /\ weekly.rows[j].max_reps = NaN
           /\ weekly.rows[j].volume = 0

DataKeys == {GKey(data.rows[n]) : n \in 1..Len(data.rows)}

\* Key a comes before key b: by muscle group, then exercise, then week_start.
KeyBefore(a, b) ==
    \/ TextLess(a[1], b[1])
    \/ a[1] = b[1] /\ TextLess(a[2], b[2])
    \/ a[1] = b[1] /\ a[2] = b[2] /\ a[3] < b[3]

\* C20: compute_weekly returns exactly one bucket for each distinct (muscle group,
\* exercise, week_start) of its input and none for other keys; sets is the number of the
\* key's records, max_gewicht their largest weight, tonnage the sum of their weights and
\* avg_gewicht = tonnage / sets; the buckets ascend by (muscle group, exercise, week_start).
C20_OneBucketPerKey ==
    WeeklyReturned =>
        /\ {GKey(weekly.rows[i]) : i \in WeeklyIdx} = DataKeys
        /\ Len(weekly.rows) = Cardinality(DataKeys)
        /\ \A i \in WeeklyIdx :
               LET b == weekly.rows[i]
               IN  /\ b.sets = Cardinality(Records(b))
                   /\ \E n \in Records(b) : data.rows[n].Gewicht = b.max_gewicht
                   /\ \A n \in Records(b) : data.rows[n].Gewicht <= b.max_gewicht
                   /\ b.tonnage = SumIdx(LAMBDA n : data.rows[n].Gewicht, Records(b))
                   /\ b.avg_gewicht.den > 0
                   /\ b.avg_gewicht.num * b.sets = b.tonnage * b.avg_gewicht.den
        /\ \A i, j \in WeeklyIdx : i < j => KeyBefore(GKey(weekly.rows[i]), GKey(weekly.rows[j]))

\* Records that arrive against the order of their keys: two of different weights in one
\* bucket (mean between them) and one of another muscle group.
C20_Witness ==
    /\ WeeklyReturned
    /\ Len(data.rows) = 3
    /\ Len(weekly.rows) = 2
    /\ KeyBefore(GKey(data.rows[3]), GKey(data.rows[1]))
    /\ weekly.rows[1].Spiergroep # weekly.rows[2].Spiergroep
    /\ \E i \in WeeklyIdx :
           /\ weekly.rows[i].sets = 2
           /\ weekly.rows[i].avg_gewicht.den = 2

----------------------------------------------------------------------------
(* Claims about the dropped and the kept records, under SpecNormalizer *)

\* The records that the Normalizer returns for the raw record alone.
Alone(raw) == normalize_rows(<<raw>>, args.week_start_day)

DateFails(raw) == raw.workout_date \in {NaT, BadValue}
WeightFails(raw) == raw.weight_kg \in {NaN, BadValue}
RepsFail(raw) == raw.reps \in {NaN, BadValue}

\* C21: a raw record whose date cannot be coerced or whose weight is missing or not numeric
\* yields no record; a record whose reps is missing or not numeric, its date, weight,
\* exercise and muscle-group field being present, is kept with its date and weight and with
\* reps absent; the output is the records of each raw record alone, in the order of the raw
\* records, so that dropping one never removes or alters another.
C21_DropsAndKeeps ==
    LoadReturned =>
        /\ data.rows = FlatMap(Alone, store)
        /\ \A n \in 1..Len(store) :
               LET raw == store[n]
                   out == Alone(raw)
               IN  /\ (DateFails(raw) \/ WeightFails(raw)) => out = <<>>
                   /\ (/\ ~DateFails(raw) /\ ~WeightFails(raw)
                       /\ raw.spiergroepen # None /\ raw.exercise_name # None) =>
                          /\ out # <<>>
                          /\ \A k \in 1..Len(out) :
                                 /\ out[k].Datum = raw.workout_date
                                 /\ out[k].Gewicht = raw.weight_kg
                                 /\ out[k].Reps = IF RepsFail(raw) THEN NaN ELSE raw.reps

\* Of two raw records the first has an unparseable date and the second has unparseable
\* reps: the output is the second alone, with reps absent.
C21_Witness ==
    /\ LoadReturned
    /\ Len(store) = 2
    /\ store[1].workout_date = BadValue
    /\ store[2].reps = BadValue
    /\ Len(data.rows) = 1
    /\ data.rows[1].Oefening = store[2].exercise_name
    /\ data.rows[1].Gewicht = store[2].weight_kg
    /\ data.rows[1].Reps = NaN

----------------------------------------------------------------------------
(* Claims about the PR timelines, under SpecPR *)

OfPair(rows, p) == SelectSeq(rows, LAMBDA r : PairKey(r) = p)

\* C23: the PR columns of the buckets of one (muscle group, exercise) pair are those that
\* add_pr_flags computes from the buckets of that pair alone, so they are the same for every
\* input with the same buckets of that pair, whatever the buckets of the other pairs are.
C23_PrFlagsPerPair ==
    PrReturned =>
        \A p \in {PairKey(weekly.rows[j]) : j \in WeeklyIdx} :
            OfPair(PrRows, p) =
                add_pr_flags(Frame(weekly.cols, OfPair(weekly.rows, p)), args.min_reps).df.rows

\* The same exercise under two muscle groups: a bucket of the second pair is a new PR
\* with a weight that an earlier bucket of the first pair already exceeds.
C23_Witness ==
    /\ PrReturned
    /\ \E i, j \in PrIdx :
           /\ PrRows[i].Oefening = PrRows[j].Oefening
           /\ PrRows[i].Spiergroep # PrRows[j].Spiergroep
           /\ PrRows[i].week_start < PrRows[j].week_start
           /\ PrRows[i].pr_eligible
           /\ PrRows[i].max_gewicht > PrRows[j].max_gewicht
           /\ PrRows[j].new_pr
           /\ IsNa(PrRows[j].prev_best)

----------------------------------------------------------------------------
(* Claims about the rows of the Plateau Classifier, under SpecPlateau *)

PrWeeksOf(p) == {weekly_pr.rows[j].week_start : j \in {j \in PairIdx(p) : weekly_pr.rows[j].new_pr}}

\* C24: plateau_alerts returns exactly one row for each distinct (muscle group, exercise)
\* pair of its input; its last_week is the greatest week_start of the pair's buckets, its
\* last_max is the max_gewicht of the bucket of that week, and its last_pr_week is the
\* greatest week_start of the pair's buckets flagged new_pr, absent if there is none.
C24_OneRowPerPair ==
    AlertsReturned =>
        /\ \A p \in PrPairs : Cardinality({i \in AlertIdx : PairKey(AlertRows[i]) = p}) = 1
        /\ \A i \in AlertIdx :
               LET a == AlertRows[i]
                   p == PairKey(a)
               IN  /\ p \in PrPairs
                   /\ a.last_week = MaxOf({weekly_pr.rows[j].week_start : j \in PairIdx(p)})
                   /\ \A j \in PairIdx(p) :
                          weekly_pr.rows[j].week_start = a.last_week =>
                              a.last_max = weekly_pr.rows[j].max_gewicht
                   /\ a.last_pr_week = IF PrWeeksOf(p) = {} THEN NaT ELSE MaxOf(PrWeeksOf(p))

\* Two pairs; one of them was last seen before the latest week of the table, with a
\* bucket lighter than an earlier one of the pair and with its PR in an earlier week.
C24_Witness ==
    /\ AlertsReturned
    /\ Len(AlertRows) = 2
    /\ \E i \in AlertIdx :
           LET a == AlertRows[i]
           IN  /\ a.last_week < GlobalLastWeek
               /\ a.last_pr_week # NaT
               /\ a.last_pr_week < a.last_week
               /\ \E j \in PairIdx(PairKey(a)) : weekly_pr.rows[j].max_gewicht > a.last_max

EligibleOf(p) == {j \in PairIdx(p) : weekly_pr.rows[j].pr_eligible}

\* C26: in the pipeline compute_weekly -> add_pr_flags -> plateau_alerts the first
\* pr_eligible bucket of every timeline is flagged new_pr, and a row has last_pr_week absent
\* exactly when no bucket of its timeline is pr_eligible, that is when no bucket of the
\* timeline has max_reps >= min_reps.
C26_NeverPrMeansNeverEligible ==
    AlertsReturned =>
        /\ \A p \in PrPairs : \A j \in EligibleOf(p) :
               (\A k \in EligibleOf(p) : weekly_pr.rows[j].week_start <= weekly_pr.rows[k].week_start)
                   => weekly_pr.rows[j].new_pr
        /\ \A i \in AlertIdx :
               /\ (AlertRows[i].last_pr_week = NaT) <=> (EligibleOf(PairKey(AlertRows[i])) = {})
               /\ (AlertRows[i].last_pr_week = NaT) <=>
                      \A j \in PairIdx(PairKey(AlertRows[i])) :
                          RepsOrZero(weekly_pr.rows[j].max_reps) < args.min_reps

\* One pair whose first bucket, heavy, has too few reps and whose later, lighter bucket is
\* eligible and flagged, and another pair without eligible bucket, which is a plateau by
\* the never-PR rule.
C26_Witness ==
    /\ AlertsReturned
    /\ args.include_never_pr
    /\ \E i, k \in AlertIdx :
           /\ AlertRows[i].last_pr_week = NaT
           /\ AlertRows[i].plateau
           /\ AlertRows[k].last_pr_week # NaT
           /\ \E j \in PairIdx(PairKey(AlertRows[k])) :
                  /\ ~weekly_pr.rows[j].pr_eligible
                  /\ weekly_pr.rows[j].week_start < AlertRows[k].last_pr_week
                  /\ \E m \in EligibleOf(PairKey(AlertRows[k])) :
                         weekly_pr.rows[m].max_gewicht < weekly_pr.rows[j].max_gewicht

----------------------------------------------------------------------------
(* Claims about volume in the score pipeline, under SpecScore *)

BucketsOf(k) == {j \in WeeklyIdx : MgKey(weekly.rows[j]) = k}
RecordsOfMg(k) == {n \in 1..Len(data.rows) : MgKey(data.rows[n]) = k}

\* C27: every bucket of compute_weekly has a volume, which is 0 when no record of the
\* bucket has reps; so in compute_weekly -> hypertrophy_score the volume_like of a (muscle
\* group, week) row is the sum of the volume of its buckets, never their tonnage, and is 0
\* for a week in which no set has reps.
C27_VolumeAlwaysPresent ==
    /\ WeeklyReturned =>
           \A j \in WeeklyIdx :
               /\ ~IsNa(weekly.rows[j].volume)
               /\ weekly.rows[j].volume >= 0
               /\ WithReps(weekly.rows[j]) = {} => weekly.rows[j].volume = 0
    /\ ScoreReturned =>
           \A i \in ScoreIdx :
               LET k == MgKey(ScoreRowsOut[i])
               IN  /\ ScoreRowsOut[i].volume_like =
                          SumIdx(LAMBDA j : weekly.rows[j].volume, BucketsOf(k))
                   /\ (\A n \in RecordsOfMg(k) : IsNa(data.rows[n].Reps)) =>
                          ScoreRowsOut[i].volume_like = 0

\* A week of one muscle group in which no set has reps, with volume_like 0 and sets and
\* tonnage above 0, next to a week with a volume above 0.
C27_Witness ==
    /\ ScoreReturned
    /\ \E i, j \in ScoreIdx :
           /\ ScoreRowsOut[i].volume_like = 0
           /\ ScoreRowsOut[i].sets > 0
           /\ SumIdx(LAMBDA b : weekly.rows[b].tonnage, BucketsOf(MgKey(ScoreRowsOut[i]))) > 0
           /\ ScoreRowsOut[j].volume_like > 0

----------------------------------------------------------------------------
(* Claims about the totals of the two aggregations, under SpecTotals *)

BothReturned == WeeklyReturned /\ DayReturned

DayIdx == 1..Len(day_split.rows)
StoreIdx == 1..Len(store)

\* The number of muscle groups a raw set is tagged with.
Tags(raw) == Len(NonEmptyParts(raw))

\* The totals of set count, tonnage and volume agree between the weekday rows, the weekly
\* buckets and the normalized records.
TotalsAgree ==
    /\ SumIdx(LAMBDA i : day_split.rows[i].sets, DayIdx) = Len(data.rows)
    /\ SumIdx(LAMBDA j : weekly.rows[j].sets, WeeklyIdx) = Len(data.rows)
    /\ SumIdx(LAMBDA i : day_split.rows[i].tonnage, DayIdx) =
           SumIdx(LAMBDA n : data.rows[n].Gewicht, DataIdx)
    /\ SumIdx(LAMBDA j : weekly.rows[j].tonnage, WeeklyIdx) =
           SumIdx(LAMBDA n : data.rows[n].Gewicht, DataIdx)
    /\ SumIdx(LAMBDA i : day_split.rows[i].volume, DayIdx) =
           SumIdx(LAMBDA n : data.rows[n].Gewicht * RepsOrZero(data.rows[n].Reps), DataIdx)
    /\ SumIdx(LAMBDA j : weekly.rows[j].volume, WeeklyIdx) =
           SumIdx(LAMBDA n : data.rows[n].Gewicht * RepsOrZero(data.rows[n].Reps), DataIdx)

\* Each raw set is counted once per muscle group it is tagged with.
CountedPerTag ==
    /\ Len(data.rows) = SumIdx(LAMBDA n : Tags(store[n]), StoreIdx)
    /\ SumIdx(LAMBDA n : data.rows[n].Gewicht, DataIdx) =
           SumIdx(LAMBDA n : Tags(store[n]) * store[n].weight_kg, StoreIdx)
    /\ SumIdx(LAMBDA n : data.rows[n].Gewicht * RepsOrZero(data.rows[n].Reps), DataIdx) =
           SumIdx(LAMBDA n : Tags(store[n]) * store[n].weight_kg * RepsOrZero(store[n].reps),
                  StoreIdx)

\* C28: for the same normalized input the sums of set count, of tonnage and of volume over
\* the weekday rows equal those over the weekly buckets and those over the normalized
\* records, and a raw set tagged with k muscle groups is counted k times in each of them.
C28_TotalsAgree == BothReturned => (TotalsAgree /\ CountedPerTag)

----------------------------------------------------------------------------
(* Claims about runs with different settings, under SpecRuns *)

RunDone == status["load_data_from_supabase"] = "returned"

\* C25: the tables of a run are those computed with the run's own week_start_day, min_reps,
\* plateau_weeks, include_never_pr and lookback_weeks, whatever the settings of the runs
\* before it, and every entry of the memo holds the data of the week_start_day it is
\* stored under.
C25_RunUsesOwnParameters ==
    /\ \A k \in DOMAIN cache : cache[k] = fetch_and_normalize(store, k)
    /\ RunDone =>
           /\ data = fetch_and_normalize(store, args.week_start_day)
           /\ weekly = compute_weekly(data).df
           /\ weekly_pr = add_pr_flags(weekly, args.min_reps).df
           /\ alerts = plateau_alerts(weekly_pr, args.plateau_weeks, args.include_never_pr).df
           /\ mg_score = hypertrophy_score(weekly, args.lookback_weeks).df
           /\ day_split = split_by_weekday(data).df

\* A run served from the memo, which holds different data under the two week start days,
\* on a store where the other value of plateau_weeks, of include_never_pr and of
\* lookback_weeks each give another table.
C25_Witness ==
    /\ RunDone
    /\ DOMAIN cache = {0, 1}
    /\ cache[0] # cache[1]
    /\ \E s \in RunsSettings :
           plateau_alerts(weekly_pr, s.plateau_weeks, args.include_never_pr).df # alerts
    /\ plateau_alerts(weekly_pr, args.plateau_weeks, ~args.include_never_pr).df # alerts
    /\ \E s \in RunsSettings : hypertrophy_score(weekly, s.lookback_weeks).df # mg_score

----------------------------------------------------------------------------
(* Claims about the login session, under SpecAuth *)

Authenticated ==
    /\ session_state.user # Missing
    /\ Truthy(session_state.access_token)
    /\ Truthy(session_state.refresh_token)

SignedOut == session_state = NoSession

UrlCleared == query_params.at = Missing /\ query_params.rt = Missing

Rejected(res) == res.exc # "none" \/ res.user = Missing \/ res.access_token = Missing

----------------------------------------------------------------------------
(* Claims about the Excel import, under SpecImport *)

\* Two uploaded rows agree on (user_id, workout_date, exercise_name, weight_kg, reps); the
\* user_id is the one DEFAULT_USER_ID on every row.
Agree(a, b) ==
    /\ a.workout_date = b.workout_date
    /\ a.exercise_name = b.exercise_name
    /\ a.weight_kg = b.weight_kg
    /\ a.reps = b.reps

\* The (user_id, import_hash) keys of the table; a set logged in the app has none.
Keys(st) == {r.import_hash : r \in Range(st)} \ {NoHash}

\* C30: of the rows extracted by an import, two have the same key exactly when they agree
\* on (user_id, workout_date, exercise_name, weight_kg, reps), whatever their muscle
\* groups; the uploaded rows are, for every such group of rows, its last row in extraction
\* order and nothing else; no two uploaded rows share (user_id, import_hash); and
\* importing the same spreadsheet once more leaves the set of keys of the table as it is.
C30_ImportCollapsesDuplicates ==
    LET rows == excel_import.rows
        deduped == excel_import.deduped
        LastOf(i) == CHOOSE j \in 1..Len(rows) :
                         /\ Agree(rows[i], rows[j])
                         /\ \A k \in (j + 1)..Len(rows) : ~Agree(rows[i], rows[k])
    IN  /\ \A i, j \in 1..Len(rows) :
               (rows[i].import_hash = rows[j].import_hash) <=> Agree(rows[i], rows[j])
        /\ Range(deduped) = {rows[LastOf(i)] : i \in 1..Len(rows)}
        /\ \A i, j \in 1..Len(deduped) :
               deduped[i].import_hash = deduped[j].import_hash => i = j
        /\ Keys(store) = Keys(upsert(store, deduped))
        /\ Keys(upsert(upsert(store, deduped), deduped)) = Keys(upsert(store, deduped))

\* An import whose two lines are the same set with different muscle groups, times of day
\* and padding: one row was uploaded, with the muscle groups of the second line.
C30_Witness ==
    /\ Len(excel_import.rows) = 2
    /\ excel_import.rows[1].spiergroepen = <<"B">>
    /\ excel_import.rows[2].spiergroepen = <<"C">>
    /\ Agree(excel_import.rows[1], excel_import.rows[2])
    /\ excel_import.deduped = <<excel_import.rows[2]>>
    /\ \E i \in 1..Len(store) : store[i] = excel_import.rows[2]
    /\ \E i \in 1..Len(store) : store[i].import_hash = NoHash

====
